---- MODULE Spec2Model ----
(***************************************************************************)
(* A model of workflow-tools' repository cache (common/cache.py,           *)
(* rp/discovery.py) and of its shell handoff protocol (common/shell.py,    *)
(* cli.py).                                                                *)
(*                                                                         *)
(* Strings are sequences of character codes, so that str.lower() and the   *)
(* ordering of strings are computed, not assumed.  A path is the sequence  *)
(* of its components, split from and joined to its string.                 *)
(***************************************************************************)
EXTENDS Integers, Sequences, FiniteSets, TLC

\* ------------------------------------------------------------------------
\* Bounds of the model
\* ------------------------------------------------------------------------
\* The clock runs from 0 to MaxTime (in ticks of half a second).
MaxTime == 3
\* The TTL the cache is constructed with, in ticks.
ttl_seconds == 2

\* ------------------------------------------------------------------------
\* State
\* ------------------------------------------------------------------------
VARIABLES
    now,         \* the clock (time.time())
    cache_file,  \* the file repos.json
    disk,        \* the repository directories that exist
    written,     \* what JSONCache.set wrote last, while nothing else touched the file
    res,         \* the call the program made last and what it returned
    TMPDIR,      \* the environment variable TMPDIR
    environ,     \* the handoff environment variables (os.environ)
    files,       \* the regular files of the file system the handoff uses
    cd_call,     \* the call of output_cd made last and the files it found
    sh_pc,       \* where the shell is: at its prompt, in the child, after it
    sh_cwd,      \* the working directory of the shell
    inv,         \* the wrapper invocation under way or returned last
    cli,         \* the subcommand that runs: where it stands, what it did
    shells,      \* the shells that share the temp directory, by process id
    procs,       \* the invocations that share the cache file
    disc,        \* a call of discover_repos: its inputs and what it returned
    fn           \* a call of a function on its own: its inputs and what it returned

cacheVars == <<now, cache_file, disk, written, res>>
handoffVars == <<TMPDIR, environ, files, cd_call, sh_pc, sh_cwd, inv>>
extVars == <<cli, shells, procs, disc, fn>>
vars == <<now, cache_file, disk, written, res,
          TMPDIR, environ, files, cd_call, sh_pc, sh_cwd, inv,
          cli, shells, procs, disc, fn>>

\* ------------------------------------------------------------------------
\* Strings
\* ------------------------------------------------------------------------
\* str.lower() on one ASCII character code
LowerChar(c) == IF c >= 65 /\ c <= 90 THEN c + 32 ELSE c
\* str.lower()
Lower(s) == [i \in 1..Len(s) |-> LowerChar(s[i])]

\* Python's s < t on strings: the first differing character decides, a
\* proper prefix is smaller.
RECURSIVE StrLess(_, _)
StrLess(s, t) ==
    IF t = <<>> THEN FALSE
    ELSE IF s = <<>> THEN TRUE
    ELSE IF Head(s) # Head(t) THEN Head(s) < Head(t)
    ELSE StrLess(Tail(s), Tail(t))

\* The names and directories the model uses
str_a == <<97>>
str_b == <<98>>
str_B == <<66>>
str_r == <<114>>
str_s == <<115>>
str_t == <<116>>
str_dotgit == <<46, 103, 105, 116>>

\* The separator of path strings
Slash == 47

\* A pathlib.Path (absolute) is a record holding its parts below the root
Path(parts) == [parts |-> parts]

\* Path(s) for a string s: the components between the slashes, empty
\* components dropped
RECURSIVE SplitAcc(_, _, _)
SplitAcc(s, cur, acc) ==
    IF s = <<>> THEN (IF cur = <<>> THEN acc ELSE Append(acc, cur))
    ELSE IF Head(s) = Slash
         THEN SplitAcc(Tail(s), <<>>, IF cur = <<>> THEN acc ELSE Append(acc, cur))
         ELSE SplitAcc(Tail(s), Append(cur, Head(s)), acc)

PathOf(s) == Path(SplitAcc(s, <<>>, <<>>))

\* str(path)
RECURSIVE JoinParts(_)
JoinParts(parts) ==
    IF parts = <<>> THEN <<>>
    ELSE <<Slash>> \o Head(parts) \o JoinParts(Tail(parts))

PathStr(p) == IF p.parts = <<>> THEN <<Slash>> ELSE JoinParts(p.parts)
\* Path.name
PathName(p) == p.parts[Len(p.parts)]
\* Path.parent
PathParent(p) == Path(SubSeq(p.parts, 1, Len(p.parts) - 1))
\* path / child
PathJoin(p, c) == Path(Append(p.parts, c))

\* The scan roots the cache is constructed with
scan_paths == << Path(<<str_r>>), Path(<<str_s>>) >>

\* The repository directories of the modelled disk (the directory t lies
\* under no scan root): those that are always there, and those the user
\* creates and deletes
FixedRepos == { Path(<<str_r, str_b>>), Path(<<str_s, str_a>>), Path(<<str_t, str_b>>) }
ComingRepos == { Path(<<str_s, str_B>>) }

\* The origin remote configured in a repository (git remote get-url origin),
\* "None" when run_git fails
OriginOf(p) == IF p.parts[1] = str_r THEN "github.com" ELSE "None"

\* ------------------------------------------------------------------------
\* rp/discovery.py: records
\* ------------------------------------------------------------------------
RepoFields == {"name", "path", "remote", "remote_type"}

RepoInfo(name, path, remote, remote_type) ==
    [name |-> name, path |-> path, remote |-> remote, remote_type |-> remote_type]

categorize_remote(remote) ==
    IF remote = "None" THEN "local"
    ELSE IF remote = "github.com" THEN "github"
    ELSE IF remote = "gitlab" THEN "gitlab"
    ELSE IF remote = "bitbucket" THEN "bitbucket"
    ELSE "other"

extract_repo_info(repo_path) ==
    RepoInfo(PathName(repo_path), PathStr(repo_path), OriginOf(repo_path),
             categorize_remote(OriginOf(repo_path)))

\* sorted(repos, key=lambda r: r.name.lower()) and list.sort with that key:
\* a stable sort, so a record is placed after every record whose key is not
\* greater than its own.
\* The key without lower()
SortKeyCased(r) == r.name

SortKey(r) == Lower(r.name)

RECURSIVE InsertByKey(_, _)
InsertByKey(sorted, r) ==
    IF sorted = <<>> THEN <<r>>
    ELSE IF StrLess(SortKey(r), SortKey(Head(sorted)))
         THEN <<r>> \o sorted
         ELSE <<Head(sorted)>> \o InsertByKey(Tail(sorted), r)

RECURSIVE SortedByName(_)
SortedByName(repos) ==
    IF repos = <<>> THEN <<>>
    ELSE InsertByKey(SortedByName(SubSeq(repos, 1, Len(repos) - 1)),
                     repos[Len(repos)])

\* ------------------------------------------------------------------------
\* rp/discovery.py: discover_repos
\* ------------------------------------------------------------------------
\* The names the find command prunes: node_modules, .pixi, __pycache__,
\* venv, .venv, .tox, target, build, dist
PruneNames ==
    { <<110, 111, 100, 101, 95, 109, 111, 100, 117, 108, 101, 115>>,
      <<46, 112, 105, 120, 105>>,
      <<95, 95, 112, 121, 99, 97, 99, 104, 101, 95, 95>>,
      <<118, 101, 110, 118>>,
      <<46, 118, 101, 110, 118>>,
      <<46, 116, 111, 120>>,
      <<116, 97, 114, 103, 101, 116>>,
      <<98, 117, 105, 108, 100>>,
      <<100, 105, 115, 116>> }

IsPrefix(s, t) == Len(s) <= Len(t) /\ SubSeq(t, 1, Len(s)) = s

\* find without the -prune expression
FindMatchesUnpruned(base, d) ==
    { PathStr(PathJoin(p, str_dotgit)) : p \in { q \in d : IsPrefix(base.parts, q.parts) } }

\* The .git directories the find command prints for one root on a disk
\* holding the repositories d: those below the root that are reached without
\* passing a pruned name (find tests the root itself by its last component).
FindMatches(base, d) ==
    { PathStr(PathJoin(p, str_dotgit)) : p \in
        { q \in d :
            /\ IsPrefix(base.parts, q.parts)
            /\ \A i \in Len(base.parts)..Len(q.parts) : q.parts[i] \notin PruneNames } }

\* Every order in which find can print a set of lines
RECURSIVE Orders(_)
Orders(S) ==
    IF S = {} THEN {<<>>}
    ELSE UNION { { <<x>> \o o : o \in Orders(S \ {x}) } : x \in S }

\* repo_path.relative_to(base).parts
RelativeParts(p, base) == SubSeq(p.parts, Len(base.parts) + 1, Len(p.parts))

\* any(part.startswith(".") for part in parts)
AnyHidden(parts) == \E i \in DOMAIN parts : parts[i] # <<>> /\ parts[i][1] = 46

\* The repositories in which extract_repo_info raises (run_git cannot
\* enter the directory): /s/u
Unreadable == { Path(<<str_s, <<117>>>>) }

\* The loop body without the test of seen_paths
RECURSIVE ScanLinesAll(_, _, _)
ScanLinesAll(lines, base, acc) ==
    IF lines = <<>> THEN acc
    ELSE LET repo_path == PathParent(PathOf(Head(lines)))
         IN  IF AnyHidden(RelativeParts(repo_path, base)) \/ repo_path \in Unreadable
             THEN ScanLinesAll(Tail(lines), base, acc)
             ELSE ScanLinesAll(Tail(lines), base,
                      [acc EXCEPT !.repos = Append(@, extract_repo_info(repo_path))])

\* The body of the loop over the lines of one find run; acc holds the list
\* repos and the set seen_paths.
RECURSIVE ScanLines(_, _, _)
ScanLines(lines, base, acc) ==
    IF lines = <<>> THEN acc
    ELSE LET repo_path == PathParent(PathOf(Head(lines)))
             path_str == PathStr(repo_path)
         IN  IF path_str \in acc.seen_paths
             THEN ScanLines(Tail(lines), base, acc)
             ELSE LET seen == [acc EXCEPT !.seen_paths = @ \cup {path_str}]
                  IN  IF AnyHidden(RelativeParts(repo_path, base))
                      THEN ScanLines(Tail(lines), base, seen)
                      ELSE IF repo_path \in Unreadable
                      THEN ScanLines(Tail(lines), base, seen)
                      ELSE ScanLines(Tail(lines), base,
                               [seen EXCEPT !.repos = Append(@, extract_repo_info(repo_path))])

\* The loop over the scan roots; runs[i] is the output of the find run for
\* root i.
RECURSIVE ScanRoots(_, _, _, _)
ScanRoots(bases, runs, i, acc) ==
    IF i > Len(bases) THEN acc
    ELSE ScanRoots(bases, runs, i + 1, ScanLines(runs[i], bases[i], acc))

\* The list before the final sort, in discovery order
DiscoveryOrder(bases, runs) ==
    ScanRoots(bases, runs, 1, [repos |-> <<>>, seen_paths |-> {}]).repos

discover_repos(bases, runs) == SortedByName(DiscoveryOrder(bases, runs))

\* The outputs the find runs can produce for the roots on disk d: for each
\* root from the i-th on its matches, in any order
RECURSIVE RunsFrom(_, _, _)
RunsFrom(bases, d, i) ==
    IF i > Len(bases) THEN {<<>>}
    ELSE { <<o>> \o rest : o \in Orders(FindMatches(bases[i], d)),
                            rest \in RunsFrom(bases, d, i + 1) }

FindRuns(bases, d) == RunsFrom(bases, d, 1)

\* ------------------------------------------------------------------------
\* common/cache.py: JSONCache
\* ------------------------------------------------------------------------
\* The content of the cache file is a sequence of tokens: brackets, commas
\* and objects.  A token "cut" is an object whose text stops half way, a
\* token "junk" is text that belongs to no JSON value and a token "bytes"
\* is bytes that are the encoding of no text.
Tok(t) == [t |-> t, v |-> <<>>]
ObjTok(d) == [t |-> "obj", v |-> d]

\* r._asdict()
AsDict(r) == [k \in RepoFields |-> r[k]]

RECURSIVE JoinObjs(_)
JoinObjs(ds) ==
    IF ds = <<>> THEN <<>>
    ELSE IF Len(ds) = 1 THEN <<ObjTok(ds[1])>>
    ELSE <<ObjTok(ds[1]), Tok(",")>> \o JoinObjs(Tail(ds))

\* json.dumps(data, indent=2, default=str) of a list of dicts
json_dumps(ds) == <<Tok("[")>> \o JoinObjs(ds) \o <<Tok("]")>>

\* The items between the brackets: objects separated by commas
ItemsOk(inner) ==
    \/ inner = <<>>
    \/ /\ Len(inner) % 2 = 1
       /\ \A i \in DOMAIN inner :
            IF i % 2 = 1 THEN inner[i].t = "obj" ELSE inner[i].t = ","

\* json.loads(text): ok is FALSE where it raises JSONDecodeError
json_loads(text) ==
    IF /\ Len(text) >= 2
       /\ text[1].t = "["
       /\ text[Len(text)].t = "]"
       /\ ItemsOk(SubSeq(text, 2, Len(text) - 1))
    THEN [ok |-> TRUE,
          value |-> [i \in 1..(Len(text) - 1) \div 2 |-> text[2 * i].v]]
    ELSE [ok |-> FALSE, value |-> <<>>]

\* The cache file: absent, or a content with a modification time; readable
\* is FALSE when opening it for reading raises OSError.
NoFile == [exists |-> FALSE, mtime |-> 0, text |-> <<>>, readable |-> TRUE]
FileOf(text, t) == [exists |-> TRUE, mtime |-> t, text |-> text, readable |-> TRUE]

\* Path.read_text(): the text, or the exception it raises: OSError when the
\* file cannot be read, UnicodeDecodeError (a ValueError) when its bytes
\* do not decode
read_text(f) ==
    IF ~f.readable THEN [err |-> "OSError", text |-> <<>>]
    ELSE IF \E i \in DOMAIN f.text : f.text[i].t = "bytes"
    THEN [err |-> "UnicodeDecodeError", text |-> <<>>]
    ELSE [err |-> "none", text |-> f.text]

\* is_valid with the age compared by <=
is_valid_inclusive(f, t) ==
    IF ~f.exists THEN FALSE
    ELSE (t - f.mtime) <= ttl_seconds

\* JSONCache.is_valid at time t
is_valid(f, t) ==
    IF ~f.exists THEN FALSE
    ELSE (t - f.mtime) < ttl_seconds

\* JSONCache.get at time t: hit is FALSE where it returns None; the handler
\* takes JSONDecodeError and OSError, any other exception leaves get
\* (raised)
cache_get(f, t) ==
    IF ~is_valid(f, t) THEN [hit |-> FALSE, data |-> <<>>, raised |-> FALSE]
    ELSE LET read == read_text(f)
         IN  IF read.err = "OSError"
             THEN [hit |-> FALSE, data |-> <<>>, raised |-> FALSE]
             ELSE IF read.err # "none"
             THEN [hit |-> FALSE, data |-> <<>>, raised |-> TRUE]
             ELSE LET parsed == json_loads(read.text)
                  IN  IF ~parsed.ok
                      THEN [hit |-> FALSE, data |-> <<>>, raised |-> FALSE]
                      ELSE [hit |-> TRUE, data |-> parsed.value, raised |-> FALSE]

\* JSONCache.set at time t
cache_set(data, t) == FileOf(json_dumps(data), t)

\* invalidate that unlinks nothing
cache_invalidate_keep(f, denied) == f

\* JSONCache.invalidate; denied says that unlink raises OSError (the
\* directory does not allow it), which the handler passes over
cache_invalidate(f, denied) == IF denied THEN f ELSE NoFile

\* ------------------------------------------------------------------------
\* rp/discovery.py: RepoCache
\* ------------------------------------------------------------------------
AsDicts(repos) == [i \in DOMAIN repos |-> AsDict(repos[i])]

\* [RepoInfo(**r) for r in cached]: the constructor takes exactly the four
\* fields and raises TypeError for any other set of keys
FromDictsOk(ds) == \A i \in DOMAIN ds : DOMAIN ds[i] = RepoFields
FromDicts(ds) ==
    [i \in DOMAIN ds |->
        RepoInfo(ds[i].name, ds[i].path, ds[i].remote, ds[i].remote_type)]

\* What a call leaves behind: the list it returns, the from_cache flag, the
\* cache file afterwards, whether it scanned and whether it raised
GetOut(repos, from_cache, file, scanned, raised) ==
    [repos |-> repos, from_cache |-> from_cache, file |-> file,
     scanned |-> scanned, raised |-> raised]

\* _refresh without the call of JSONCache.set
refresh_unsaved(scan, t) == GetOut(scan, FALSE, cache_file, TRUE, FALSE)

\* RepoCache._refresh at time t, where scan is what discover_repos returns
refresh(scan, t) == GetOut(scan, FALSE, cache_set(AsDicts(scan), t), TRUE, FALSE)

\* get_repos that never looks at the cache
get_repos_uncached(f, t, force_refresh, scan) == refresh(scan, t)

\* RepoCache.get_repos
get_repos(f, t, force_refresh, scan) ==
    IF force_refresh THEN refresh(scan, t)
    ELSE LET cached == cache_get(f, t)
         IN  IF cached.raised
             THEN GetOut(<<>>, FALSE, f, FALSE, TRUE)
             ELSE IF cached.hit
             THEN IF FromDictsOk(cached.data)
                  THEN GetOut(FromDicts(cached.data), TRUE, f, FALSE, FALSE)
                  ELSE GetOut(<<>>, FALSE, f, FALSE, TRUE)
             ELSE refresh(scan, t)

\* add_repo without the check for an existing record
add_repo_unchecked(f, t, repo_path, on_disk, scan) ==
    LET got == get_repos(f, t, FALSE, scan)
    IN  IF got.raised \/ ~on_disk
        THEN [file |-> got.file, raised |-> TRUE, got |-> got, wrote |-> FALSE]
        ELSE [file |-> cache_set(AsDicts(SortedByName(
                           Append(got.repos, extract_repo_info(repo_path)))), t),
              raised |-> FALSE, got |-> got, wrote |-> TRUE]

\* RepoCache.add_repo; on_disk says whether the directory exists (run_git
\* raises FileNotFoundError when its working directory does not)
add_repo(f, t, repo_path, on_disk, scan) ==
    LET got == get_repos(f, t, FALSE, scan)
        repos == got.repos
    IN  IF got.raised
        THEN [file |-> got.file, raised |-> TRUE, got |-> got, wrote |-> FALSE]
        ELSE IF ~on_disk
        THEN [file |-> got.file, raised |-> TRUE, got |-> got, wrote |-> FALSE]
        ELSE IF \E i \in DOMAIN repos : repos[i].path = PathStr(repo_path)
        THEN [file |-> got.file, raised |-> FALSE, got |-> got, wrote |-> FALSE]
        ELSE [file |-> cache_set(AsDicts(SortedByName(
                           Append(repos, extract_repo_info(repo_path)))), t),
              raised |-> FALSE, got |-> got, wrote |-> TRUE]

\* The filter with the names compared instead of the paths
RECURSIVE WithoutName(_, _)
WithoutName(repos, path_str) ==
    IF repos = <<>> THEN <<>>
    ELSE IF Head(repos).name # PathName(PathOf(path_str))
         THEN <<Head(repos)>> \o WithoutName(Tail(repos), path_str)
         ELSE WithoutName(Tail(repos), path_str)

\* [r for r in repos if r.path != path_str]
RECURSIVE WithoutPath(_, _)
WithoutPath(repos, path_str) ==
    IF repos = <<>> THEN <<>>
    ELSE IF Head(repos).path # path_str
         THEN <<Head(repos)>> \o WithoutPath(Tail(repos), path_str)
         ELSE WithoutPath(Tail(repos), path_str)

\* remove_repo without the write of the filtered list
remove_repo_unsaved(f, t, repo_path, scan) ==
    LET got == get_repos(f, t, FALSE, scan)
    IN  [file |-> got.file, raised |-> got.raised, got |-> got, wrote |-> FALSE]

\* RepoCache.remove_repo
remove_repo(f, t, repo_path, scan) ==
    LET got == get_repos(f, t, FALSE, scan)
    IN  IF got.raised
        THEN [file |-> got.file, raised |-> TRUE, got |-> got, wrote |-> FALSE]
        ELSE [file |-> cache_set(AsDicts(WithoutPath(got.repos, PathStr(repo_path))), t),
              raised |-> FALSE, got |-> got, wrote |-> TRUE]

\* The first record of the list that satisfies Test, None when there is none
None == [name |-> <<>>, path |-> <<>>, remote |-> "None", remote_type |-> "None"]

FirstPathMatch(repos, q) ==
    IF \E i \in DOMAIN repos : repos[i].path = q
    THEN repos[CHOOSE i \in DOMAIN repos :
                 /\ repos[i].path = q
                 /\ \A j \in 1..(i - 1) : repos[j].path # q]
    ELSE None

FirstNameMatch(repos, q) ==
    IF \E i \in DOMAIN repos : repos[i].name = q
    THEN repos[CHOOSE i \in DOMAIN repos :
                 /\ repos[i].name = q
                 /\ \A j \in 1..(i - 1) : repos[j].name # q]
    ELSE None

FirstLowerMatch(repos, q) ==
    IF \E i \in DOMAIN repos : Lower(repos[i].name) = Lower(q)
    THEN repos[CHOOSE i \in DOMAIN repos :
                 /\ Lower(repos[i].name) = Lower(q)
                 /\ \A j \in 1..(i - 1) : Lower(repos[j].name) # Lower(q)]
    ELSE None

\* find_repo with the case-insensitive tier tried before the exact name
find_repo_lower_first(f, t, name_or_path, scan) ==
    LET got == get_repos(f, t, FALSE, scan)
        repos == got.repos
    IN  [file |-> got.file, raised |-> got.raised, got |-> got,
         found |-> IF FirstPathMatch(repos, name_or_path) # None
                   THEN FirstPathMatch(repos, name_or_path)
                   ELSE IF FirstLowerMatch(repos, name_or_path) # None
                   THEN FirstLowerMatch(repos, name_or_path)
                   ELSE FirstNameMatch(repos, name_or_path)]

\* RepoCache.find_repo
find_repo(f, t, name_or_path, scan) ==
    LET got == get_repos(f, t, FALSE, scan)
        repos == got.repos
    IN  IF got.raised THEN [file |-> got.file, raised |-> TRUE, got |-> got, found |-> None]
        ELSE [file |-> got.file, raised |-> FALSE, got |-> got,
              found |-> IF FirstPathMatch(repos, name_or_path) # None
                        THEN FirstPathMatch(repos, name_or_path)
                        ELSE IF FirstNameMatch(repos, name_or_path) # None
                        THEN FirstNameMatch(repos, name_or_path)
                        ELSE FirstLowerMatch(repos, name_or_path)]

\* ------------------------------------------------------------------------
\* The directory handoff: output_cd (common/shell.py) and the shell
\* wrappers (cli.py)
\* ------------------------------------------------------------------------
str_tmp == <<116, 109, 112>>
str_home == <<104, 111, 109, 101>>
str_lt == <<108, 116>>
str_nx == <<110, 120>>
str_out == <<111, 117, 116>>
str_in == <<105, 110>>
str_d == <<100>>
str_f == <<102>>
str_dotdot == <<46, 46>>
str_repo == <<114, 101, 112, 111>>
str_wt == <<119, 116>>
str_rp == <<114, 112>>
str_old == <<111, 108, 100>>
str_loop == <<108, 111, 111, 112>>
Newline == 10

\* The directories of the modelled file system, by their parts below the
\* root, and its symbolic links: /lt names the temp directory, /tmp/out
\* leads out of it, /home/in leads into it and /tmp/loop names itself
Dirs ==
    { <<>>, <<str_tmp>>, <<str_tmp, str_d>>, <<str_home>>,
      <<str_home, str_repo>>, <<str_home, str_wt>> }
Symlinks ==
    { [at |-> <<str_lt>>, to |-> <<str_tmp>>],
      [at |-> <<str_tmp, str_out>>, to |-> <<str_home>>],
      [at |-> <<str_home, str_in>>, to |-> <<str_tmp>>],
      [at |-> <<str_tmp, str_loop>>, to |-> <<str_tmp, str_loop>>] }
IsLink(parts) == \E l \in Symlinks : l.at = parts
LinkTarget(parts) == (CHOOSE l \in Symlinks : l.at = parts).to

\* The location a path names: '..' drops the last component reached (the
\* root is its own parent) and a symbolic link is replaced by its target
RECURSIVE RealPathAcc(_, _)
RealPathAcc(rest, done) ==
    IF rest = <<>> THEN done
    ELSE IF Head(rest) = str_dotdot
         THEN RealPathAcc(Tail(rest),
                          IF done = <<>> THEN <<>>
                          ELSE SubSeq(done, 1, Len(done) - 1))
         ELSE LET newpath == Append(done, Head(rest))
              IN  IF IsLink(newpath)
                  THEN RealPathAcc(LinkTarget(newpath) \o Tail(rest), <<>>)
                  ELSE RealPathAcc(Tail(rest), newpath)

RealPath(parts) == RealPathAcc(parts, <<>>)

\* Whether following the path meets a symbolic link that is being
\* followed (those in open): realpath stops there, and stat() of what it
\* returns fails with ELOOP
RECURSIVE SymlinkLoop(_, _, _)
SymlinkLoop(rest, done, open) ==
    IF rest = <<>> THEN FALSE
    ELSE IF Head(rest) = str_dotdot
         THEN SymlinkLoop(Tail(rest),
                          IF done = <<>> THEN <<>>
                          ELSE SubSeq(done, 1, Len(done) - 1), open)
         ELSE LET newpath == Append(done, Head(rest))
              IN  IF IsLink(newpath)
                  THEN \/ newpath \in open
                       \/ SymlinkLoop(LinkTarget(newpath), <<>>, open \cup {newpath})
                       \/ SymlinkLoop(Tail(rest), RealPath(LinkTarget(newpath)), open)
                  ELSE SymlinkLoop(Tail(rest), newpath, open)

\* Path.resolve(), of a path that meets no loop
ResolveLexical(p) == p
Resolve(p) == Path(RealPath(p.parts))

\* p.relative_to(other) returns (TRUE) or raises ValueError (FALSE)
relative_to(p, other) == IsPrefix(other.parts, p.parts)

\* Path.write_text(text): the file system places the file where the path
\* leads; it raises OSError (ok = FALSE) when that is a directory or lies
\* in no directory
write_text(fs, p, text) ==
    LET at == RealPath(p.parts)
    IN  IF at # <<>> /\ at \notin Dirs /\ SubSeq(at, 1, Len(at) - 1) \in Dirs
        THEN [ok |-> TRUE,
              files |-> { f \in fs : f.path # at } \cup {[path |-> at, text |-> text]}]
        ELSE [ok |-> FALSE, files |-> fs]

\* An environment variable: unset, or set to a string
Unset == [set |-> FALSE, value |-> <<>>]
EnvSet(v) == [set |-> TRUE, value |-> v]

\* tempfile.gettempdir(): $TMPDIR when it names a directory, /tmp otherwise
gettempdir(tmpdir) ==
    IF /\ tmpdir.set /\ tmpdir.value # <<>>
       /\ ~SymlinkLoop(PathOf(tmpdir.value).parts, <<>>, {})
       /\ RealPath(PathOf(tmpdir.value).parts) \in Dirs
    THEN tmpdir.value
    ELSE PathStr(Path(<<str_tmp>>))

\* "Switching to "
CD_MARKER == <<83, 119, 105, 116, 99, 104, 105, 110, 103, 32, 116, 111, 32>>

\* output_cd(path, env_var) with the environment env, $TMPDIR tmpdir and the
\* files fs: the files it leaves, whether it wrote, the line it prints when
\* it returns, and whether the handoff path runs into a loop of links.
\* Path.resolve() of such a path raises RuntimeError up to Python 3.12; from
\* 3.13 on it returns and write_text raises OSError, which is caught.
output_cd(path, env_var, env, tmpdir, fs) ==
    LET cd_file == env[env_var]
        echo == CD_MARKER \o PathStr(path)
    IN  IF cd_file.set /\ cd_file.value # <<>>
        THEN IF SymlinkLoop(PathOf(cd_file.value).parts, <<>>, {})
             THEN [files |-> fs, wrote |-> FALSE, echo |-> echo, loop |-> TRUE]
             ELSE
             LET cd_path == Resolve(PathOf(cd_file.value))
                 temp_dir == Resolve(PathOf(gettempdir(tmpdir)))
             IN  IF relative_to(cd_path, temp_dir)
                 THEN LET w == write_text(fs, cd_path, PathStr(path))
                      IN  [files |-> w.files, wrote |-> w.ok, echo |-> echo,
                           loop |-> FALSE]
                 ELSE [files |-> fs, wrote |-> FALSE, echo |-> echo, loop |-> FALSE]
        ELSE [files |-> fs, wrote |-> FALSE, echo |-> echo, loop |-> FALSE]

\* The handoff variables and the tools that have a wrapper with a handoff
EnvVars == {"WT_CD_FILE", "RP_CD_FILE"}
Tools == {"wt", "pr", "rp"}

\* The variable a tool's subcommands hand to output_cd
ToolEnvVar(tool) == IF tool = "rp" THEN "RP_CD_FILE" ELSE "WT_CD_FILE"
\* The variable a tool's shell wrapper reads
WrapperVar(tool) == IF tool = "rp" THEN "RP_CD_FILE" ELSE "WT_CD_FILE"

\* The process id of the shell ($$), and the process ids of shells that
\* run at the same time
ShellPid == 1
Pids == {1, 2, 12}

\* $$: the process id in decimal
RECURSIVE Decimal(_)
Decimal(n) == IF n < 10 THEN <<48 + n>> ELSE Decimal(n \div 10) \o <<48 + (n % 10)>>

\* .wt_cd_$$ and .rp_cd_$$
CdFileNameNoPid(env_var, pid) ==
    <<46>> \o (IF env_var = "WT_CD_FILE" THEN str_wt ELSE str_rp)
           \o <<95, 99, 100, 95>>
CdFileName(env_var, pid) ==
    <<46>> \o (IF env_var = "WT_CD_FILE" THEN str_wt ELSE str_rp)
           \o <<95, 99, 100, 95>> \o Decimal(pid)

\* export WT_CD_FILE="${TMPDIR:-/tmp}/.wt_cd_$$" and the same for RP_CD_FILE
shell_export(tmpdir, pid) ==
    [v \in EnvVars |->
        EnvSet((IF tmpdir.set /\ tmpdir.value # <<>>
                THEN tmpdir.value ELSE PathStr(Path(<<str_tmp>>)))
               \o <<Slash>> \o CdFileName(v, pid))]

\* [[ -f "$name" ]]
sh_test_f(fs, name) == \E f \in fs : f.path = RealPath(PathOf(name).parts)
\* cat "$name"
sh_cat(fs, name) == (CHOOSE f \in fs : f.path = RealPath(PathOf(name).parts)).text
\* rm -f "$name"
sh_rm_f(fs, name) == { f \in fs : f.path # RealPath(PathOf(name).parts) }
\* "$(...)": the output without its trailing newlines
RECURSIVE command_subst(_)
command_subst(text) ==
    IF text # <<>> /\ text[Len(text)] = Newline
    THEN command_subst(SubSeq(text, 1, Len(text) - 1))
    ELSE text
\* cd "$arg": the shell stays where it is when arg is no directory
sh_cd(cwd, arg) ==
    IF arg # <<>> /\ RealPath(PathOf(arg).parts) \in Dirs THEN arg ELSE cwd

\* The wrapper before it runs the binary
wrapper_begin_keep(fs, name) == fs
wrapper_begin(fs, name) == sh_rm_f(fs, name)

\* The wrapper after the binary has exited
wrapper_end(fs, cwd, name) ==
    IF sh_test_f(fs, name)
    THEN [files |-> sh_rm_f(fs, name),
          cwd |-> sh_cd(cwd, command_subst(sh_cat(fs, name))),
          did_cd |-> TRUE]
    ELSE [files |-> fs, cwd |-> cwd, did_cd |-> FALSE]

NoCall ==
    [called |-> FALSE, env_var |-> "WT_CD_FILE", path |-> <<>>, before |-> {},
     wrote |-> FALSE, raised |-> FALSE, echo |-> <<>>]
NoInv ==
    [tool |-> "wt", stale |-> FALSE, wrote |-> FALSE, path |-> <<>>,
     did_cd |-> FALSE, returned |-> FALSE, cwd_before |-> <<>>]

\* The subcommands, the other shells, the other invocations and the
\* discovery at rest
NoCli ==
    [tool |-> "none", cmd |-> "none", args |-> <<>>, cd_calls |-> 0, created |-> 0,
     exit_code |-> 0, rejected |-> FALSE, cancelled |-> FALSE, raised |-> FALSE,
     events |-> <<>>, prompts |-> 0, row |-> "none", target |-> "none"]
NoFn == [name |-> "none"]
NoShells == <<>>
NoProcs == <<>>
NoDisc ==
    [called |-> FALSE, bases |-> <<>>, outcomes |-> <<>>, runs |-> <<>>,
     raised |-> FALSE, repos |-> <<>>]
ExtIdle ==
    /\ cli = NoCli
    /\ shells = NoShells
    /\ procs = NoProcs
    /\ disc = NoDisc
    /\ fn = NoFn

\* The handoff at rest, for the specification of the cache
HandoffIdle ==
    /\ TMPDIR = Unset
    /\ environ = [v \in EnvVars |-> Unset]
    /\ files = {}
    /\ cd_call = NoCall
    /\ sh_pc = "idle"
    /\ sh_cwd = PathStr(Path(<<str_home>>))
    /\ inv = NoInv

\* ------------------------------------------------------------------------
\* The state machine of the repository cache
\* ------------------------------------------------------------------------
\* The paths add_repo and remove_repo are called with
Targets == { Path(<<str_r, str_b>>), Path(<<str_s, str_B>>), Path(<<str_t, str_b>>) }

\* The strings find_repo is asked for: paths, names, a name in another case
\* and a name nobody has
Queries ==
    { PathStr(Path(<<str_r, str_b>>)), str_b, str_B, <<65>>, <<122>> }

\* The entries a cache file holds
Entries(f) ==
    IF ~f.exists THEN <<>>
    ELSE LET parsed == json_loads(f.text)
         IN  IF parsed.ok THEN parsed.value ELSE <<>>

\* The state of the cache file as a call finds it
PreState(f, t) ==
    IF ~f.exists THEN "absent"
    ELSE IF ~((t - f.mtime) < ttl_seconds) THEN "stale"
    ELSE IF read_text(f).err = "OSError" THEN "unreadable"
    ELSE IF read_text(f).err # "none" THEN "undecodable"
    ELSE IF ~json_loads(f.text).ok THEN "not json"
    ELSE "fresh"

NoRes ==
    [op |-> "none", arg |-> <<>>, force |-> FALSE, pre |-> "absent",
     raised |-> FALSE, repos |-> <<>>, from_cache |-> FALSE, scanned |-> FALSE,
     scan |-> <<>>, order |-> <<>>, found |-> None, valid |-> FALSE, hit |-> FALSE,
     pre_paths |-> {}, got_raised |-> FALSE, denied |-> FALSE,
     prev |-> <<"none", "absent", FALSE>>]

\* What a call of RepoCache leaves in res; got is what its get_repos
\* returned and sc the scan it could see
ResOf(op, arg, force, raised, got, sc) ==
    [NoRes EXCEPT !.op = op, !.arg = arg, !.force = force,
                  !.pre = PreState(cache_file, now), !.raised = raised,
                  !.prev = IF res.op = "invalidate"
                           THEN <<res.op, res.pre, res.denied>> ELSE NoRes.prev,
                  !.repos = got.repos, !.from_cache = got.from_cache,
                  !.scanned = got.scanned, !.got_raised = got.raised,
                  !.scan = IF got.scanned THEN sc.repos ELSE <<>>,
                  !.order = IF got.scanned THEN sc.order ELSE <<>>,
                  !.pre_paths = IF PreState(cache_file, now) = "fresh"
                                THEN LET e == Entries(cache_file)
                                     IN  { e[i].path : i \in DOMAIN e }
                                ELSE {}]

\* The scans a call can see, each with its discovery order and the list
\* discover_repos returns: one for every order in which the find commands
\* can print their lines; when the call does not scan, nothing is run
ScansSeen(force) ==
    IF force \/ ~cache_get(cache_file, now).hit
    THEN { [order |-> DiscoveryOrder(scan_paths, runs),
            repos |-> discover_repos(scan_paths, runs)] :
              runs \in FindRuns(scan_paths, disk) }
    ELSE { [order |-> <<>>, repos |-> <<>>] }

NotWritten == [live |-> FALSE, data |-> <<>>, at |-> 0]

\* The ghost variable written after a call that took the file from f to g;
\* wrote says whether the call reached JSONCache.set
WrittenAfter(g, wrote) ==
    IF wrote THEN [live |-> TRUE, data |-> Entries(g), at |-> g.mtime]
    ELSE written

CacheInit ==
    /\ now = 0
    /\ cache_file = NoFile
    /\ disk \in { FixedRepos \cup c : c \in SUBSET ComingRepos }
    /\ written = NotWritten
    /\ res = NoRes
    /\ HandoffIdle
    /\ ExtIdle

\* --- the environment ---

\* Time passes
Tick ==
    /\ now < MaxTime
    /\ now' = now + 1
    /\ res' = NoRes
    /\ UNCHANGED <<cache_file, disk, written, handoffVars, extVars>>

\* The user creates (clones) a repository directory
EnvCreateRepo(p) ==
    /\ p \notin disk
    /\ disk' = disk \cup {p}
    /\ res' = NoRes
    /\ UNCHANGED <<now, cache_file, written, handoffVars, extVars>>

\* The user deletes a repository directory
EnvDeleteRepo(p) ==
    /\ p \in disk
    /\ disk' = disk \ {p}
    /\ res' = NoRes
    /\ UNCHANGED <<now, cache_file, written, handoffVars, extVars>>

\* Something else writes text that is not JSON into the cache file
EnvCorruptFile ==
    /\ cache_file' = FileOf(<<Tok("junk"), Tok("{"), Tok("{")>>, now)
    /\ written' = NotWritten
    /\ res' = NoRes
    /\ UNCHANGED <<now, disk, handoffVars, extVars>>

\* Something else leaves bytes in the cache file that are no text
EnvGarbageBytes ==
    /\ cache_file' = FileOf(<<Tok("bytes"), Tok("junk")>>, now)
    /\ written' = NotWritten
    /\ res' = NoRes
    /\ UNCHANGED <<now, disk, handoffVars, extVars>>

\* A concurrent invocation is half way through JSONCache.set: the file holds
\* the first k tokens of the text (nothing, the opening bracket, or all but
\* the closing bracket), possibly followed by a cut object
EnvTruncateFile ==
    \E runs \in FindRuns(scan_paths, disk) :
      LET text == json_dumps(AsDicts(discover_repos(scan_paths, runs)))
      IN  \E k \in {0, 1, Len(text) - 1}, cut \in BOOLEAN :
            /\ cut => text[k + 1].t = "obj"
            /\ cache_file' = FileOf(SubSeq(text, 1, k) \o
                                    (IF cut THEN <<Tok("cut")>> ELSE <<>>), now)
            /\ written' = NotWritten
            /\ res' = NoRes
            /\ UNCHANGED <<now, disk, handoffVars, extVars>>

\* The file becomes unreadable: read_text raises OSError
EnvUnreadable ==
    /\ cache_file.exists
    /\ cache_file.readable
    /\ cache_file' = [cache_file EXCEPT !.readable = FALSE]
    /\ written' = NotWritten
    /\ res' = NoRes
    /\ UNCHANGED <<now, disk, handoffVars, extVars>>

\* Another version of the program wrote the cache file: every record of
\* its scan carries one more field ("extra"), or has no field remote
\* ("missing")
EnvOtherVersion ==
    \E runs \in FindRuns(scan_paths, disk), layout \in {"extra", "missing"} :
      LET ds == AsDicts(discover_repos(scan_paths, runs))
          keys == IF layout = "extra" THEN RepoFields \cup {"language"}
                  ELSE RepoFields \ {"remote"}
          other == [i \in DOMAIN ds |->
                       [k \in keys |-> IF k \in RepoFields THEN ds[i][k] ELSE str_a]]
      IN  /\ cache_file' = FileOf(json_dumps(other), now)
          /\ written' = NotWritten
          /\ res' = NoRes
          /\ UNCHANGED <<now, disk, handoffVars, extVars>>

\* --- the program ---

\* JSONCache.is_valid() followed by JSONCache.get()
CacheProbe ==
    /\ LET got == cache_get(cache_file, now)
       IN  res' = [NoRes EXCEPT !.op = "probe", !.pre = PreState(cache_file, now),
                                !.valid = is_valid(cache_file, now),
                                !.hit = got.hit, !.repos = got.data,
                                !.raised = got.raised]
    /\ UNCHANGED <<now, cache_file, disk, written, handoffVars, extVars>>

\* RepoCache.get_repos(force_refresh=force)
GetRepos(force) ==
    \E sc \in ScansSeen(force) :
    \E out \in { get_repos(cache_file, now, force, sc.repos) } :
          /\ cache_file' = out.file
          /\ written' = WrittenAfter(out.file, out.scanned)
          /\ res' = ResOf("get_repos", <<>>, force, out.raised, out, sc)
          /\ UNCHANGED <<now, disk, handoffVars, extVars>>

\* RepoCache.add_repo(p)
AddRepo(p) ==
    \E sc \in ScansSeen(FALSE) :
    \E out \in { add_repo(cache_file, now, p, p \in disk, sc.repos) } :
          /\ cache_file' = out.file
          /\ written' = WrittenAfter(out.file, out.got.scanned \/ out.wrote)
          /\ res' = ResOf("add_repo", PathStr(p), FALSE, out.raised, out.got, sc)
          /\ UNCHANGED <<now, disk, handoffVars, extVars>>

\* RepoCache.remove_repo(p)
RemoveRepo(p) ==
    \E sc \in ScansSeen(FALSE) :
    \E out \in { remove_repo(cache_file, now, p, sc.repos) } :
          /\ cache_file' = out.file
          /\ written' = WrittenAfter(out.file, out.got.scanned \/ out.wrote)
          /\ res' = ResOf("remove_repo", PathStr(p), FALSE, out.raised, out.got, sc)
          /\ UNCHANGED <<now, disk, handoffVars, extVars>>

\* RepoCache.find_repo(q)
FindRepo(q) ==
    \E sc \in ScansSeen(FALSE) :
    \E out \in { find_repo(cache_file, now, q, sc.repos) } :
          /\ cache_file' = out.file
          /\ written' = WrittenAfter(out.file, out.got.scanned)
          /\ res' = [ResOf("find_repo", q, FALSE, out.raised, out.got, sc)
                       EXCEPT !.found = out.found]
          /\ UNCHANGED <<now, disk, handoffVars, extVars>>

\* RepoCache.invalidate()
Invalidate ==
    \E denied \in BOOLEAN :
    /\ cache_file' = cache_invalidate(cache_file, denied)
    /\ written' = IF denied THEN written ELSE NotWritten
    /\ res' = [NoRes EXCEPT !.op = "invalidate", !.pre = PreState(cache_file, now),
                            !.denied = denied]
    /\ UNCHANGED <<now, disk, handoffVars, extVars>>

Next ==
    \/ Tick
    \/ \E p \in ComingRepos : EnvCreateRepo(p)
    \/ \E p \in ComingRepos : EnvDeleteRepo(p)
    \/ EnvCorruptFile
    \/ EnvGarbageBytes
    \/ EnvTruncateFile
    \/ EnvUnreadable
    \/ CacheProbe
    \/ \E force \in BOOLEAN : GetRepos(force)
    \/ \E p \in Targets : AddRepo(p)
    \/ \E p \in Targets : RemoveRepo(p)
    \/ \E q \in Queries : FindRepo(q)
    \/ Invalidate

Spec == CacheInit /\ [][Next]_vars

\* The readers of the cache next to a writer of another version
NextCompat ==
    \/ Tick
    \/ \E p \in ComingRepos : EnvCreateRepo(p)
    \/ EnvOtherVersion
    \/ \E force \in BOOLEAN : GetRepos(force)
    \/ \E q \in Queries : FindRepo(q)
    \/ Invalidate

SpecCompat == CacheInit /\ [][NextCompat]_vars

\* ------------------------------------------------------------------------
\* Properties of the repository cache
\* ------------------------------------------------------------------------
PathsOf(list) == { list[i].path : i \in DOMAIN list }

\* list is ordered by lower-cased name
OrderedByLowerName(list) ==
    \A i, j \in DOMAIN list :
        i < j => ~StrLess(Lower(list[j].name), Lower(list[i].name))

\* The position of the record with path p in list
PosOf(list, p) == CHOOSE i \in DOMAIN list : list[i].path = p

\* The smallest element of a non-empty set of numbers
Least(S) == CHOOSE i \in S : \A j \in S : i <= j

\* C1: get_repos(force_refresh=False) does not raise on a cache file that is
\* absent, stale, unreadable or no JSON text (a half-written file and bytes
\* that are no text included); it scans, persists the scan and reports
\* from_cache = False.
C1_BadFileIsMiss ==
    (res.op = "get_repos" /\ ~res.force /\ res.pre # "fresh") =>
        /\ ~res.raised
        /\ res.scanned
        /\ ~res.from_cache
        /\ cache_file.exists /\ cache_file.mtime = now /\ cache_file.readable
        /\ Entries(cache_file) = AsDicts(res.scan)
        /\ res.repos = res.scan

\* C2: on a cache file that exists, is younger than the TTL and parses,
\* get_repos(force_refresh=False) returns the persisted records in their
\* order with from_cache = True, scans nothing and leaves the file as it is.
C2_HitLeavesFile ==
    [][ (GetRepos(FALSE) /\ PreState(cache_file, now) = "fresh") =>
            /\ res'.from_cache
            /\ ~res'.scanned
            /\ ~res'.raised
            /\ res'.repos = Entries(cache_file)
            /\ cache_file' = cache_file ]_vars

C2_Witness ==
    /\ res.op = "get_repos" /\ ~res.force /\ res.pre = "fresh"
    /\ res.from_cache /\ Len(res.repos) >= 2 /\ cache_file.mtime < now

\* C3: get_repos(force_refresh=True) always scans, reports from_cache = False
\* and leaves the persisted cache equal to the scan: exactly the repositories
\* on disk under the scan roots, whatever add_repo and remove_repo did before.
C3_ForceReplaces ==
    (res.op = "get_repos" /\ res.force) =>
      LET e == Entries(cache_file)
      IN
        /\ res.scanned
        /\ ~res.from_cache
        /\ ~res.raised
        /\ res.repos = res.scan
        /\ cache_file.exists /\ cache_file.mtime = now
        /\ e = AsDicts(res.scan)
        /\ PathsOf(e) =
             { PathStr(p) : p \in { q \in disk : \E i \in DOMAIN scan_paths :
                                       IsPrefix(scan_paths[i].parts, q.parts) } }

C3_Witness ==
    /\ res.op = "get_repos" /\ res.force /\ res.pre = "fresh"
    /\ PathStr(Path(<<str_t, str_b>>)) \in res.pre_paths
    /\ PathStr(Path(<<str_r, str_b>>)) \notin res.pre_paths
    /\ PathStr(Path(<<str_r, str_b>>)) \in PathsOf(Entries(cache_file))

\* C4: while nothing else writes the file, what JSONCache.set wrote at time T
\* is valid and returned by get at every time t with t - T < ttl_seconds, and
\* invalid and not returned at every time t with t - T >= ttl_seconds.
C4_TtlBoundary ==
    (res.op = "probe" /\ written.live) =>
        IF now - written.at < ttl_seconds
        THEN res.valid /\ res.hit /\ res.repos = written.data
        ELSE ~res.valid /\ ~res.hit

C4_Witness ==
    /\ res.op = "probe" /\ written.live /\ Len(written.data) >= 2
    /\ now - written.at = ttl_seconds /\ ~res.valid

\* C5: after add_repo(p) returns the persisted cache holds exactly one record
\* with the path str(p), and no two persisted records ever share a path.
C5_AddNoDuplicate ==
    LET e == Entries(cache_file)
    IN  /\ (res.op = "add_repo" /\ ~res.raised) =>
              Cardinality({ i \in DOMAIN e : e[i].path = res.arg }) = 1
        /\ \A i, j \in DOMAIN e : i # j => e[i].path # e[j].path

C5_Witness ==
    /\ res.op = "add_repo" /\ ~res.raised /\ res.from_cache
    /\ res.arg \in PathsOf(res.repos)
    /\ res.arg = PathStr(Path(<<str_t, str_b>>))

\* C6: once its get_repos has returned, remove_repo(p) raises nothing and
\* leaves a persisted cache that holds no record with the path str(p) and
\* holds every other record get_repos returned, in the same order; when no
\* record has the path the entries are unchanged.
C6_RemoveFilters ==
    (res.op = "remove_repo" /\ ~res.got_raised) =>
        LET e == Entries(cache_file)
        IN  /\ ~res.raised
            /\ res.arg \notin PathsOf(e)
            /\ e = SelectSeq(res.repos, LAMBDA r : r.path # res.arg)
            /\ (res.arg \notin PathsOf(res.repos) => e = res.repos)

C6_Witness ==
    /\ res.op = "remove_repo" /\ res.from_cache
    /\ res.arg = PathStr(Path(<<str_r, str_b>>))
    /\ res.arg \in PathsOf(res.repos)
    /\ Len(Entries(cache_file)) = 3

C8_SortedByLowerName ==
  LET e == Entries(cache_file)
  IN
    /\ OrderedByLowerName(e)
    /\ res.scanned =>
          /\ OrderedByLowerName(res.scan)
          /\ PathsOf(res.scan) = PathsOf(res.order)
          /\ Len(res.scan) = Len(res.order)
          /\ \A i, j \in DOMAIN res.scan :
                (i < j /\ Lower(res.scan[i].name) = Lower(res.scan[j].name)) =>
                    PosOf(res.order, res.scan[i].path) < PosOf(res.order, res.scan[j].path)
    /\ (res.op = "add_repo" /\ ~res.raised /\ res.arg \notin PathsOf(res.repos)) =>
          /\ SelectSeq(e, LAMBDA r : r.path # res.arg) = res.repos
          /\ \A i \in DOMAIN e :
                Lower(e[i].name) = Lower(PathName(PathOf(res.arg))) =>
                    i <= PosOf(e, res.arg)

C8_Witness ==
    /\ res.op = "add_repo" /\ ~res.raised /\ res.scanned
    /\ Len(res.scan) = 3 /\ Len(Entries(cache_file)) = 4
    /\ res.order[1].name = str_b /\ res.order[2].name = str_B
    /\ res.scan[1].name = str_a /\ res.scan[3].name = str_B

\* ------------------------------------------------------------------------
\* The state machine of output_cd
\* ------------------------------------------------------------------------
\* The longest path the handoff variable is set to, in components
MaxDepth == 3

\* The cache at rest, for the specifications of the handoff
CacheIdle ==
    /\ now = 0
    /\ cache_file = NoFile
    /\ disk = FixedRepos
    /\ written = NotWritten
    /\ res = NoRes

\* The values of the handoff variable: the paths of up to MaxDepth
\* components over directories, links, a file name and '..'
CdComponents ==
    { str_tmp, str_home, str_lt, str_out, str_in, str_d, str_f, str_dotdot,
      str_loop }
CdFileInputs ==
    { JoinParts(parts) :
        parts \in UNION { [1..n -> CdComponents] : n \in 1..MaxDepth } }

\* The values of $TMPDIR: unset, the temp directory, a link to it, and a
\* directory that does not exist
TmpdirValues ==
    { Unset, EnvSet(PathStr(Path(<<str_tmp>>))), EnvSet(PathStr(Path(<<str_lt>>))),
      EnvSet(PathStr(Path(<<str_nx>>))) }

\* The paths the subcommands hand over: two directories, and the path of a
\* repository the cache still lists after its directory was deleted
CdTargets ==
    { Path(<<str_home, str_repo>>), Path(<<str_home, str_wt>>),
      Path(<<str_home, str_nx>>) }

\* The files there are before output_cd runs, one outside the temp
\* directory and one inside
InitialFiles ==
    { [path |-> <<str_home, str_f>>, text |-> str_old],
      [path |-> <<str_tmp, str_f>>, text |-> str_old] }

CdInit ==
    /\ CacheIdle
    /\ TMPDIR \in TmpdirValues
    /\ \E v \in EnvVars :
       \E e \in {Unset, EnvSet(<<>>)} \cup { EnvSet(s) : s \in CdFileInputs } :
          environ = [w \in EnvVars |-> IF w = v THEN e ELSE Unset]
    /\ files = InitialFiles
    /\ cd_call = NoCall
    /\ sh_pc = "idle"
    /\ sh_cwd = PathStr(Path(<<str_home>>))
    /\ inv = NoInv
    /\ ExtIdle

\* output_cd(path, env_var), run by an interpreter whose Path.resolve()
\* raises on a loop of links or by one whose resolve() does not
OutputCd(path, env_var) ==
    \E out \in { output_cd(path, env_var, environ, TMPDIR, files) } :
    \E raises \in IF out.loop THEN BOOLEAN ELSE {FALSE} :
        /\ files' = out.files
        /\ cd_call' = [called |-> TRUE, env_var |-> env_var, path |-> PathStr(path),
                       before |-> files, wrote |-> out.wrote,
                       raised |-> out.loop /\ raises,
                       echo |-> IF out.loop /\ raises THEN <<>> ELSE out.echo]
        /\ UNCHANGED <<cacheVars, extVars, TMPDIR, environ, sh_pc, sh_cwd, inv>>

NextCd ==
    \E path \in CdTargets, env_var \in EnvVars : OutputCd(path, env_var)

SpecCd == CdInit /\ [][NextCd]_vars

\* ------------------------------------------------------------------------
\* The state machine of the shell wrappers
\* ------------------------------------------------------------------------
ShInit ==
    /\ CacheIdle
    /\ TMPDIR \in TmpdirValues
    /\ environ = shell_export(TMPDIR, ShellPid)
    /\ files = {}
    /\ cd_call = NoCall
    /\ sh_pc = "idle"
    /\ sh_cwd = PathStr(Path(<<str_home>>))
    /\ inv = NoInv
    /\ ExtIdle

\* The user calls the shell function of a tool: it removes the handoff
\* file and starts the binary
WrapperBegin(tool) ==
    /\ sh_pc = "idle"
    /\ LET name == environ[WrapperVar(tool)].value
       IN  /\ files' = wrapper_begin(files, name)
           /\ inv' = [NoInv EXCEPT !.tool = tool, !.stale = sh_test_f(files, name),
                                   !.cwd_before = sh_cwd]
    /\ sh_pc' = "child"
    /\ UNCHANGED <<cacheVars, extVars, TMPDIR, environ, cd_call, sh_cwd>>

\* The subcommand calls output_cd(path)
ChildOutputCd(path) ==
    /\ sh_pc = "child"
    /\ \E out \in { output_cd(path, ToolEnvVar(inv.tool), environ, TMPDIR, files) } :
        /\ files' = out.files
        /\ inv' = [inv EXCEPT !.wrote = @ \/ out.wrote,
                              !.path = IF out.wrote THEN PathStr(path) ELSE @]
    /\ UNCHANGED <<cacheVars, extVars, TMPDIR, environ, cd_call, sh_pc, sh_cwd>>

\* The binary exits
ChildExit ==
    /\ sh_pc = "child"
    /\ sh_pc' = "post"
    /\ UNCHANGED <<cacheVars, extVars, TMPDIR, environ, files, cd_call, sh_cwd, inv>>

\* The user interrupts the invocation: the binary dies and the shell
\* function is abandoned where it stands
Interrupt ==
    /\ sh_pc = "child"
    /\ sh_pc' = "idle"
    /\ inv' = NoInv
    /\ UNCHANGED <<cacheVars, extVars, TMPDIR, environ, files, cd_call, sh_cwd>>

\* The rest of the shell function: cd to the path in the handoff file, if
\* there is one, remove the file and return
WrapperEnd ==
    /\ sh_pc = "post"
    /\ \E out \in { wrapper_end(files, sh_cwd, environ[WrapperVar(inv.tool)].value) } :
        /\ files' = out.files
        /\ sh_cwd' = out.cwd
        /\ inv' = [inv EXCEPT !.did_cd = out.did_cd, !.returned = TRUE]
    /\ sh_pc' = "idle"
    /\ UNCHANGED <<cacheVars, extVars, TMPDIR, environ, cd_call>>

\* The binary is run without the shell function, in the same shell
DirectRun(tool, path) ==
    /\ sh_pc = "idle"
    /\ files' = output_cd(path, ToolEnvVar(tool), environ, TMPDIR, files).files
    /\ inv' = NoInv
    /\ UNCHANGED <<cacheVars, extVars, TMPDIR, environ, cd_call, sh_pc, sh_cwd>>

NextShell ==
    \/ \E tool \in Tools : WrapperBegin(tool)
    \/ \E path \in CdTargets : ChildOutputCd(path)
    \/ ChildExit
    \/ Interrupt
    \/ WrapperEnd
    \/ \E tool \in Tools, path \in CdTargets : DirectRun(tool, path)

SpecShell == ShInit /\ [][NextShell]_vars

\* ------------------------------------------------------------------------
\* Properties of the directory handoff
\* ------------------------------------------------------------------------
\* The location of the temp directory
TempRoot == RealPath(PathOf(gettempdir(TMPDIR)).parts)

\* C9: output_cd writes only when the handoff variable is set and the path
\* it names leads, through its '..' components and symbolic links, into the
\* temp directory: a call that creates or changes a file had the variable
\* set to such a path, every file it created or changed lies in the temp
\* directory, and every file outside it is as it was.
C9_WritesOnlyInsideTemp ==
    cd_call.called =>
        LET e == environ[cd_call.env_var]
        IN  /\ files # cd_call.before =>
                 /\ e.set
                 /\ IsPrefix(TempRoot, RealPath(PathOf(e.value).parts))
            /\ \A f \in files \ cd_call.before : IsPrefix(TempRoot, f.path)
            /\ \A f \in cd_call.before : ~IsPrefix(TempRoot, f.path) => f \in files

\* A call wrote through a path that is not the location it names
C9_Witness ==
    /\ cd_call.called
    /\ files # cd_call.before
    /\ LET e == environ[cd_call.env_var]
       IN  RealPath(PathOf(e.value).parts) # PathOf(e.value).parts

C12_NeverRaisesAndEchoes ==
    cd_call.called =>
        /\ ~cd_call.raised
        /\ cd_call.echo = CD_MARKER \o cd_call.path

\* ------------------------------------------------------------------------
\* The subcommands of wt, pr and rp: one process invocation each
\* ------------------------------------------------------------------------
\* The most actions the user picks in one run of pr's interactive menu, and
\* the most repositories rp clone --all finds not cloned
MaxChoices == 3
MaxClones == 2

\* What an invocation did: its calls of output_cd, the worktrees it
\* created, its exit code, and whether a validation rejected its input
Out(cd_calls, created, exit_code, rejected) ==
    [cd_calls |-> cd_calls, created |-> created, exit_code |-> exit_code,
     rejected |-> rejected, cancelled |-> FALSE, raised |-> FALSE, events |-> <<>>,
     prompts |-> 0, row |-> "none", target |-> "none"]

\* What else an invocation did, in order: sessions attached, killed or
\* made, remote changes, programs started, cache records added
Did(events, exit_code) == [Out(0, 0, exit_code, FALSE) EXCEPT !.events = events]

\* A picker returned None after the invocation did what before lists:
\* "Cancelled." is printed and the command returns
Cancelled(before) ==
    [Out(0, 0, 0, FALSE) EXCEPT !.cancelled = TRUE, !.events = Append(before, "cancel")]

\* An exception no handler takes ends the process with a traceback
Traceback(before) ==
    [Out(0, 0, 1, FALSE) EXCEPT !.raised = TRUE, !.events = Append(before, "raise")]

\* A process runs the subcommand from its start to its end
CliDone(tool, cmd, a, out) ==
    /\ cli = NoCli
    /\ cli' = [tool |-> tool, cmd |-> cmd, args |-> a, cd_calls |-> out.cd_calls,
               created |-> out.created, exit_code |-> out.exit_code,
               rejected |-> out.rejected, cancelled |-> out.cancelled,
               raised |-> out.raised, events |-> out.events, prompts |-> out.prompts,
               row |-> out.row, target |-> out.target]
    /\ UNCHANGED <<cacheVars, handoffVars, shells, procs, disc, fn>>

\* A worktree name as given or typed: none, one validate_worktree_name
\* accepts, one it rejects
Names == {"none", "ok", "bad"}

\* wt create [name] [-b branch]
WtCreate ==
    \E a \in [in_repo : BOOLEAN, branch : BOOLEAN, name : Names, typed : Names \ {"none"},
              branch_made : BOOLEAN, picked : BOOLEAN, made : BOOLEAN] :
        CliDone("wt", "create", a,
            IF ~a.in_repo THEN Out(0, 0, 1, FALSE)
            ELSE IF a.branch
            THEN IF a.name = "none" \/ ~a.branch_made THEN Out(0, 0, 1, FALSE)
                 ELSE IF a.made THEN Out(1, 1, 0, FALSE)
                 ELSE Out(0, 0, 0, FALSE)
            ELSE IF ~a.picked THEN Cancelled(<<>>)
            ELSE IF (IF a.name = "none" THEN a.typed ELSE a.name) = "bad"
                 THEN Out(0, 0, 0, TRUE)
            ELSE IF a.made THEN Out(1, 1, 0, FALSE)
            ELSE Out(0, 0, 0, FALSE))

\* wt pr [name]
WtPr ==
    \E a \in [in_repo : BOOLEAN, prs : BOOLEAN, picked : BOOLEAN, name : Names,
              typed : Names \ {"none"}, pr_ok : BOOLEAN, fetched : BOOLEAN, made : BOOLEAN] :
        CliDone("wt", "pr", a,
            IF ~a.in_repo \/ ~a.prs THEN Out(0, 0, 1, FALSE)
            ELSE IF ~a.picked THEN Cancelled(<<>>)
            ELSE IF (IF a.name = "none" THEN a.typed ELSE a.name) = "bad"
                 THEN Out(0, 0, 0, TRUE)
            ELSE IF ~a.pr_ok THEN Out(0, 0, 0, TRUE)
            ELSE IF ~a.fetched THEN Out(0, 0, 0, FALSE)
            ELSE IF a.made THEN Out(1, 1, 0, FALSE)
            ELSE Out(0, 0, 0, FALSE))

\* wt fork [name]
WtFork ==
    \E a \in [in_repo : BOOLEAN, base : {"none", "HEAD", "branch"}, name : Names,
              typed : Names \ {"none"}, branch_made : BOOLEAN, made : BOOLEAN] :
        CliDone("wt", "fork", a,
            IF ~a.in_repo THEN Out(0, 0, 1, FALSE)
            ELSE IF a.base = "none" THEN Cancelled(<<>>)
            ELSE IF (IF a.name = "none" THEN a.typed ELSE a.name) = "bad"
                 THEN Out(0, 0, 0, TRUE)
            ELSE IF a.base # "HEAD" /\ ~a.branch_made THEN Out(0, 0, 0, FALSE)
            ELSE IF a.made THEN Out(1, 1, 0, FALSE)
            ELSE Out(0, 0, 0, FALSE))

\* wt switch that uses the index without the test for None
WtSwitchUnchecked ==
    \E a \in [in_repo : BOOLEAN, name : BOOLEAN, exists : BOOLEAN,
              worktrees : BOOLEAN, picked : BOOLEAN] :
        CliDone("wt", "switch", a,
            IF ~a.in_repo THEN Out(0, 0, 1, FALSE)
            ELSE IF a.name
            THEN IF a.exists THEN Out(1, 0, 0, FALSE) ELSE Out(0, 0, 1, FALSE)
            ELSE IF ~a.worktrees THEN Out(0, 0, 1, FALSE)
            ELSE IF ~a.picked
            THEN [Traceback(<<"cancel">>) EXCEPT !.cancelled = TRUE]
            ELSE Out(1, 0, 0, FALSE))

\* wt switch [name], and wt without a subcommand
WtSwitch ==
    \E a \in [in_repo : BOOLEAN, name : BOOLEAN, exists : BOOLEAN,
              worktrees : BOOLEAN, picked : BOOLEAN] :
        CliDone("wt", "switch", a,
            IF ~a.in_repo THEN Out(0, 0, 1, FALSE)
            ELSE IF a.name
            THEN IF a.exists THEN Out(1, 0, 0, FALSE) ELSE Out(0, 0, 1, FALSE)
            ELSE IF ~a.worktrees THEN Out(0, 0, 1, FALSE)
            ELSE IF ~a.picked THEN Cancelled(<<>>)
            ELSE Out(1, 0, 0, FALSE))

\* wt claude [name]
WtClaude ==
    \E a \in [in_repo : BOOLEAN, name : BOOLEAN, exists : BOOLEAN,
              worktrees : BOOLEAN, picked : BOOLEAN] :
        CliDone("wt", "claude", a,
            IF ~a.in_repo THEN Out(0, 0, 1, FALSE)
            ELSE IF ~a.name /\ ~a.worktrees THEN Out(0, 0, 1, FALSE)
            ELSE IF ~a.name /\ ~a.picked THEN Cancelled(<<>>)
            ELSE IF a.name /\ ~a.exists THEN Out(0, 0, 1, FALSE)
            ELSE Did(<<"claude">>, 0))

\* do_remove_worktree(repo_root, name, worktree_path, force): whether it
\* removed the worktree, and its calls of output_cd
do_remove_worktree(in_removed_worktree, dirty, force, confirmed, removed) ==
    IF ~force /\ dirty /\ ~confirmed THEN [ok |-> FALSE, cd_calls |-> 0]
    ELSE IF removed
         THEN [ok |-> TRUE, cd_calls |-> IF in_removed_worktree THEN 1 ELSE 0]
    ELSE [ok |-> FALSE, cd_calls |-> 0]

\* wt remove [name] [-f]
WtRemove ==
    \E a \in [in_repo : BOOLEAN, name : BOOLEAN, found : BOOLEAN, picked : BOOLEAN,
              sure : BOOLEAN, inside : BOOLEAN, dirty : BOOLEAN, force : BOOLEAN,
              confirmed : BOOLEAN, removed : BOOLEAN] :
        CliDone("wt", "remove", a,
            IF ~a.in_repo THEN Out(0, 0, 1, FALSE)
            ELSE IF ~a.found THEN Out(0, 0, 1, FALSE)
            ELSE IF ~a.name /\ ~a.picked THEN Cancelled(<<>>)
            ELSE IF ~a.name /\ ~a.sure THEN Out(0, 0, 0, FALSE)
            ELSE LET done == do_remove_worktree(a.inside, a.dirty, a.force,
                                                a.confirmed, a.removed)
                 IN  Out(done.cd_calls, 0, IF done.ok THEN 0 ELSE 1, FALSE))

\* wt cleanup
WtCleanup ==
    \E a \in [in_repo : BOOLEAN, current : {"none", "main", "worktree"},
              sure : BOOLEAN, dirty : BOOLEAN, confirmed : BOOLEAN,
              removed : BOOLEAN, delete_branch : BOOLEAN] :
        CliDone("wt", "cleanup", a,
            IF ~a.in_repo \/ a.current # "worktree" THEN Out(0, 0, 1, FALSE)
            ELSE IF ~a.sure THEN Out(0, 0, 0, FALSE)
            ELSE LET done == do_remove_worktree(TRUE, a.dirty, FALSE,
                                                a.confirmed, a.removed)
                 IN  Out(done.cd_calls, 0, IF done.ok THEN 0 ELSE 1, FALSE))

\* pr checkout [pr_num] [name]
checkout_cmd(a) ==
    IF ~a.pr_found \/ ~a.in_repo THEN Out(0, 0, 1, FALSE)
    ELSE IF ~a.pr_ok THEN Out(0, 0, 1, TRUE)
    ELSE IF (IF a.name = "none" THEN a.typed ELSE a.name) = "bad"
         THEN Out(0, 0, 1, TRUE)
    ELSE IF a.exists THEN Out(1, 0, 0, FALSE)
    ELSE IF ~a.fetched THEN Out(0, 0, 1, FALSE)
    ELSE IF a.made THEN Out(1, 1, 0, FALSE)
    ELSE Out(0, 0, 0, FALSE)

CheckoutArgs ==
    [pr_found : BOOLEAN, in_repo : BOOLEAN, pr_ok : BOOLEAN, name : Names,
     typed : Names \ {"none"}, exists : BOOLEAN, fetched : BOOLEAN, made : BOOLEAN]

PrCheckout ==
    \E a \in CheckoutArgs : CliDone("pr", "checkout", a, checkout_cmd(a))

\* pr without a subcommand: the menu of actions, picked from until the
\* user quits ("q"), creates a worktree ("w"), or a picked command
\* exits ("x"); "o" is any other action, which returns to the menu
PrInteractiveLoop ==
    \E picks \in UNION { [1..n -> {"o", "w", "q", "x"}] : n \in 0..MaxChoices },
       ready \in BOOLEAN, c \in { a \in CheckoutArgs : a.name = "none" } :
        CliDone("pr", "interactive", <<ready, picks, c>>,
            IF ~ready THEN Out(0, 0, 1, FALSE)
            ELSE LET ws == { i \in DOMAIN picks : picks[i] = "w" }
                     one == checkout_cmd(c)
                 IN  Out(Cardinality(ws) * one.cd_calls, Cardinality(ws) * one.created,
                         one.exit_code, one.rejected))
\* A pick "c" is the picker returning None; pr_picked is FALSE when the
\* picker of the pull request did
PrInteractive ==
    \E picks \in UNION { [1..n -> {"o", "w", "q", "x", "c"}] : n \in 0..MaxChoices },
       ready \in BOOLEAN, pr_picked \in BOOLEAN,
       c \in { a \in CheckoutArgs : a.name = "none" } :
        CliDone("pr", "interactive", <<ready, picks, c, pr_picked>>,
            IF ~ready THEN Out(0, 0, 1, FALSE)
            ELSE IF ~pr_picked THEN Cancelled(<<>>)
            ELSE LET ends == { i \in DOMAIN picks : picks[i] # "o" }
                     last == CHOOSE i \in ends : \A j \in ends : i <= j
                 IN  IF ends = {} \/ picks[last] = "q" THEN Out(0, 0, 0, FALSE)
                     ELSE IF picks[last] = "c"
                     THEN Cancelled([i \in 1..last - 1 |-> "viewed"])
                     ELSE IF picks[last] = "x" THEN Out(0, 0, 1, FALSE)
                     ELSE checkout_cmd(c))

\* The most prompts of the picker followed in one run of rp switch
MaxPrompts == 3

\* The loop of switch_cmd with the picked index used as it is
RECURSIVE switch_loop_unshifted(_, _, _)
switch_loop_unshifted(a, force_refresh, prompts) ==
    LET from_cache == ~force_refresh /\ a.hit
        repos == IF from_cache THEN a.cached ELSE a.scan
        options == IF from_cache THEN <<"[refresh list]">> \o repos ELSE repos
    IN  IF repos = <<>> THEN [Out(0, 0, 1, FALSE) EXCEPT !.prompts = prompts]
        ELSE IF prompts = MaxPrompts
        THEN [Did(<<"prompt">>, 0) EXCEPT !.prompts = prompts + 1]
        ELSE LET pick == a.picks[prompts + 1]
                 index == IF pick = -1 THEN -1 ELSE pick % Len(options)
             IN  IF index = -1 THEN [Cancelled(<<>>) EXCEPT !.prompts = prompts + 1]
                 ELSE IF from_cache /\ index = 0
                 THEN switch_loop_unshifted(a, TRUE, prompts + 1)
                 ELSE IF index >= Len(repos)
                 THEN [Traceback(<<>>) EXCEPT !.prompts = prompts + 1,
                                              !.row = options[index + 1]]
                 ELSE [Out(1, 0, 0, FALSE) EXCEPT !.prompts = prompts + 1,
                                                  !.row = options[index + 1],
                                                  !.target = repos[index + 1]]

\* The loop of switch_cmd that goes round without setting force_refresh
RECURSIVE switch_loop_forgetful(_, _, _)
switch_loop_forgetful(a, force_refresh, prompts) ==
    LET from_cache == ~force_refresh /\ a.hit
        repos == IF from_cache THEN a.cached ELSE a.scan
        options == IF from_cache THEN <<"[refresh list]">> \o repos ELSE repos
    IN  IF repos = <<>> THEN [Out(0, 0, 1, FALSE) EXCEPT !.prompts = prompts]
        ELSE IF prompts = MaxPrompts
        THEN [Did(<<"prompt">>, 0) EXCEPT !.prompts = prompts + 1]
        ELSE LET pick == a.picks[prompts + 1]
                 index == IF pick = -1 THEN -1 ELSE pick % Len(options)
                 repo_index == IF from_cache THEN index - 1 ELSE index
             IN  IF index = -1 THEN [Cancelled(<<>>) EXCEPT !.prompts = prompts + 1]
                 ELSE IF from_cache /\ index = 0
                 THEN switch_loop_forgetful(a, force_refresh, prompts + 1)
                 ELSE [Out(1, 0, 0, FALSE) EXCEPT !.prompts = prompts + 1,
                                                  !.row = options[index + 1],
                                                  !.target = repos[repo_index + 1]]

\* The loop of switch_cmd from its top: a.hit says whether the cache file
\* is valid, a.cached is the list it holds, a.scan what discover_repos
\* returns, and a.picks what the user picks at each prompt, -1 for a
\* cancelled picker and otherwise a row, taken modulo the rows shown.  After
\* MaxPrompts prompts the run is left at its next prompt.
RECURSIVE switch_loop(_, _, _)
switch_loop(a, force_refresh, prompts) ==
    LET from_cache == ~force_refresh /\ a.hit
        repos == IF from_cache THEN a.cached ELSE a.scan
        options == IF from_cache THEN <<"[refresh list]">> \o repos ELSE repos
    IN  IF repos = <<>> THEN [Out(0, 0, 1, FALSE) EXCEPT !.prompts = prompts]
        ELSE IF prompts = MaxPrompts
        THEN [Did(<<"prompt">>, 0) EXCEPT !.prompts = prompts + 1]
        ELSE LET pick == a.picks[prompts + 1]
                 index == IF pick = -1 THEN -1 ELSE pick % Len(options)
                 repo_index == IF from_cache THEN index - 1 ELSE index
             IN  IF index = -1 THEN [Cancelled(<<>>) EXCEPT !.prompts = prompts + 1]
                 ELSE IF from_cache /\ index = 0
                 THEN switch_loop(a, TRUE, prompts + 1)
                 ELSE [Out(1, 0, 0, FALSE) EXCEPT !.prompts = prompts + 1,
                                                  !.row = options[index + 1],
                                                  !.target = repos[repo_index + 1]]

\* rp switch [name] [-r], and rp without a subcommand
RpSwitch ==
    \E a \in [name : BOOLEAN, found : BOOLEAN, refresh : BOOLEAN, hit : BOOLEAN,
              cached : {<<>>, <<"/r/a">>, <<"/r/a", "/r/b">>},
              scan : {<<>>, <<"/r/b">>, <<"/r/a", "/r/b", "/r/c">>},
              picks : [1..MaxPrompts -> -1..2]] :
        CliDone("rp", "switch", a,
            IF a.name
            THEN IF (IF ~a.refresh /\ a.hit THEN a.cached ELSE a.scan) = <<>>
                 THEN Out(0, 0, 1, FALSE)
                 ELSE IF a.found THEN Out(1, 0, 0, FALSE) ELSE Out(0, 0, 1, FALSE)
            ELSE switch_loop(a, a.refresh, 0))

\* rp create name [--no-clone] [-p path], and rp fork [repo] with the same
\* steps after the fork is made
RpCreate ==
    \E cmd \in {"create", "fork"} :
    \E a \in [chosen : BOOLEAN, made : BOOLEAN, no_clone : BOOLEAN,
              dest : BOOLEAN, viewer : BOOLEAN, cloned : BOOLEAN] :
        CliDone("rp", cmd, a,
            IF cmd = "fork" /\ ~a.chosen THEN Cancelled(<<>>)
            ELSE IF ~a.made THEN Out(0, 0, 1, FALSE)
            ELSE IF a.no_clone THEN Did(<<"made">>, 0)
            ELSE IF ~a.dest THEN Cancelled(<<"made">>)
            ELSE IF cmd = "fork" /\ ~a.viewer THEN Did(<<"made">>, 1)
            ELSE IF a.cloned
            THEN [Out(1, 0, 0, FALSE) EXCEPT !.events = <<"made", "add_repo">>]
            ELSE Did(<<"made">>, 1))

\* rp clone [repo_name] [-p path] [--all]
RpClone ==
    \E a \in [listed : BOOLEAN, repo_name : {"none", "unknown", "cloned", "new"},
              clone_all : BOOLEAN, uncloned : 0..MaxClones,
              picked : {"none", "cloned", "new"}, dest : BOOLEAN],
       exists \in [1..MaxClones -> BOOLEAN] :
        CliDone("rp", "clone", <<a, exists>>,
            IF ~a.listed THEN Out(0, 0, 1, FALSE)
            ELSE IF a.repo_name = "unknown" THEN Out(0, 0, 1, FALSE)
            ELSE IF a.repo_name = "cloned" THEN Out(1, 0, 0, FALSE)
            ELSE IF a.repo_name = "new"
                 \* repos_to_clone is not bound on this path: the loop over
                 \* it raises UnboundLocalError
                 THEN IF a.dest THEN Traceback(<<>>) ELSE Cancelled(<<>>)
            ELSE IF a.clone_all /\ a.uncloned = 0 THEN Out(0, 0, 0, FALSE)
            ELSE IF ~a.clone_all /\ a.picked = "none" THEN Cancelled(<<>>)
            ELSE IF ~a.clone_all /\ a.picked = "cloned" THEN Out(1, 0, 0, FALSE)
            ELSE IF ~a.dest THEN Cancelled(<<>>)
            ELSE LET repos_to_clone == IF a.clone_all THEN a.uncloned ELSE 1
                     added == SelectSeq([i \in 1..repos_to_clone |->
                                           IF exists[i] THEN "add_repo" ELSE "failed"],
                                        LAMBDA e : e = "add_repo")
                 IN  IF repos_to_clone = 1 /\ exists[1]
                     THEN [Out(1, 0, 0, FALSE) EXCEPT !.events = added]
                     ELSE Did(added, 0))

\* rp rename old_name new_name [--local-only] [--github-only]
RpRename ==
    \E a \in [local_only : BOOLEAN, github_only : BOOLEAN, found : BOOLEAN,
              taken : BOOLEAN, renamed : BOOLEAN] :
        CliDone("rp", "rename", a,
            IF ~a.github_only /\ (~a.found \/ a.taken) THEN Out(0, 0, 1, FALSE)
            ELSE IF ~a.local_only /\ ~a.renamed THEN Out(0, 0, 1, FALSE)
            ELSE IF ~a.github_only THEN Out(1, 0, 0, FALSE)
            ELSE Out(0, 0, 0, FALSE))

\* pr resolve, pr unresolve and pr reply without thread ids: the picker of
\* threads, then the change on GitHub
PrThreads ==
    \E cmd \in {"resolve", "unresolve", "reply"} :
    \E a \in [pr_found : BOOLEAN, ids : BOOLEAN, threads : BOOLEAN, picked : BOOLEAN] :
        CliDone("pr", cmd, a,
            IF ~a.pr_found THEN Out(0, 0, 1, FALSE)
            ELSE IF a.ids THEN Did(<<cmd>>, 0)
            ELSE IF ~a.threads THEN Out(0, 0, 0, FALSE)
            ELSE IF ~a.picked THEN Cancelled(<<>>)
            ELSE Did(<<cmd>>, 0))

\* tm without a subcommand, tm attach [name] and tm kill [name] [-f];
\* a.how is the answer to prompt_attach_options when the session picked is
\* attached elsewhere
TmCommand ==
    \E cmd \in {"default", "attach", "kill"} :
    \E a \in [installed : BOOLEAN, inside : BOOLEAN, sessions : 0..2, name : BOOLEAN,
              exists : BOOLEAN, picked : {"none", "new", "session"},
              attached : BOOLEAN, how : {"none", "join"}, sure : BOOLEAN,
              killed : BOOLEAN] :
        LET attach_to_session ==
                IF ~a.exists THEN Out(0, 0, 1, FALSE)
                ELSE IF ~a.attached THEN Did(<<"attach">>, 0)
                ELSE IF a.how = "none" THEN Cancelled(<<>>)
                ELSE Did(<<"attach">>, 0)
            kill_session ==
                IF ~a.sure THEN Out(0, 0, 0, FALSE)
                ELSE IF a.killed THEN Did(<<"kill">>, 0)
                ELSE Out(0, 0, 1, FALSE)
        IN  CliDone("tm", cmd, a,
                IF ~a.installed THEN Out(0, 0, 1, FALSE)
                ELSE IF a.inside THEN Out(0, 0, 0, FALSE)
                ELSE IF cmd = "default"
                THEN IF a.name THEN attach_to_session
                     ELSE IF a.picked = "none" THEN Cancelled(<<>>)
                     ELSE IF a.picked = "new" THEN Did(<<"new-session">>, 0)
                     ELSE IF a.sessions = 0 THEN Out(0, 0, 0, FALSE)
                     ELSE attach_to_session
                ELSE IF cmd = "attach"
                THEN IF a.sessions = 0
                     THEN IF a.sure THEN Did(<<"new-session">>, 0) ELSE Out(0, 0, 0, FALSE)
                     ELSE IF a.name \/ a.sessions = 1 THEN attach_to_session
                     ELSE IF a.picked # "session" THEN Cancelled(<<>>)
                     ELSE attach_to_session
                ELSE IF a.sessions = 0 THEN Out(0, 0, 1, FALSE)
                ELSE IF a.name
                THEN IF ~a.exists THEN Out(0, 0, 1, FALSE) ELSE kill_session
                ELSE IF a.picked # "session" THEN Cancelled(<<>>)
                ELSE kill_session)

\* The user is back at the prompt: the next invocation is a new process
NewProcess ==
    /\ cli # NoCli
    /\ cli' = NoCli
    /\ UNCHANGED <<cacheVars, handoffVars, shells, procs, disc, fn>>

NextCli ==
    \/ NewProcess
    \/ /\ cli = NoCli
       /\ \/ WtCreate
          \/ WtPr
          \/ WtFork
          \/ WtSwitch
          \/ WtClaude
          \/ PrThreads
          \/ TmCommand
          \/ WtRemove
          \/ WtCleanup
          \/ PrCheckout
          \/ PrInteractive
          \/ RpSwitch
          \/ RpCreate
          \/ RpClone
          \/ RpRename

\* No process has run yet
CliInit == CacheIdle /\ HandoffIdle /\ ExtIdle

SpecCli == CliInit /\ [][NextCli]_vars

\* ------------------------------------------------------------------------
\* Properties of the subcommands
\* ------------------------------------------------------------------------
\* C11: a process invocation of any wt, pr or rp subcommand calls output_cd
\* at most once, whatever path it takes through its loops, early returns
\* and error exits.
C11_OutputCdAtMostOnce == cli.cd_calls <= 1

\* A run of pr's menu in which the user looked at something, then created a
\* worktree, and the wrapper was handed its path
C11_Witness ==
    /\ cli.tool = "pr" /\ cli.cmd = "interactive"
    /\ Len(cli.args[2]) = MaxChoices
    /\ cli.args[2][1] = "o" /\ cli.args[2][2] = "w" /\ cli.args[2][3] = "w"
    /\ cli.cd_calls = 1

\* C20: whenever a validation rejects the worktree name or the PR number,
\* the subcommand creates no worktree, makes no call of output_cd, and the
\* process ends with a nonzero exit code.
C20_RejectedExitsNonzero ==
    cli.rejected => cli.created = 0 /\ cli.cd_calls = 0 /\ cli.exit_code # 0

C27_HandsOffPickedRow ==
    (cli.tool = "rp" /\ cli.cmd = "switch" /\ ~cli.args.name) =>
        /\ ~cli.raised
        /\ cli.cd_calls = 1 => cli.target = cli.row /\ cli.row # "[refresh list]"
        /\ (cli.cd_calls = 1 /\ cli.prompts = 1 /\ cli.args.hit /\ ~cli.args.refresh)
              => cli.target = cli.args.cached[cli.args.picks[1] % (Len(cli.args.cached) + 1)]
        /\ (cli.cd_calls = 1 /\ (cli.prompts = 2 \/ ~cli.args.hit \/ cli.args.refresh))
              => cli.target = cli.args.scan[(cli.args.picks[cli.prompts] % Len(cli.args.scan)) + 1]

\* The list of two came from the cache and the user picked its last row
C27_Witness ==
    /\ cli.tool = "rp" /\ cli.cmd = "switch" /\ ~cli.args.name
    /\ cli.args.hit /\ ~cli.args.refresh /\ Len(cli.args.cached) = 2
    /\ cli.args.picks[1] = 2
    /\ cli.cd_calls = 1 /\ cli.target = "/r/b"

\* C28: the loop of interactive rp switch ends: after '[refresh list]' is
\* picked the list is rescanned and shown without that row, so a run has at
\* most two prompts and one refresh, and ends in a handoff, in 'Cancelled.'
\* or in 'No repositories found' with exit code 1.
C28_SwitchLoopEnds ==
    (cli.tool = "rp" /\ cli.cmd = "switch" /\ ~cli.args.name) =>
        /\ cli.prompts <= 2
        /\ \/ cli.cd_calls = 1 /\ cli.exit_code = 0
           \/ cli.cancelled /\ cli.exit_code = 0
           \/ cli.exit_code = 1 /\ ~cli.raised /\ cli.cd_calls = 0
        /\ cli.prompts = 2 => cli.args.hit /\ ~cli.args.refresh /\ cli.args.picks[1] >= 0

\* The user picked '[refresh list]' and then a repository of the new list
C28_Witness ==
    /\ cli.tool = "rp" /\ cli.cmd = "switch" /\ ~cli.args.name
    /\ cli.prompts = 2 /\ cli.cd_calls = 1
    /\ cli.target = "/r/c"

\* C23: rp clone REPO_NAME, for a repository of the user on GitHub that no
\* local repository is named after, clones it into the chosen destination
\* and then adds it to the cache and hands its directory off; no branch
\* ends in an exception.
C23_CloneByName ==
    (/\ cli.tool = "rp" /\ cli.cmd = "clone"
     /\ cli.args[1].listed /\ cli.args[1].repo_name = "new")
    => /\ ~cli.raised
       /\ (cli.args[1].dest /\ cli.args[2][1])
             => cli.cd_calls = 1 /\ cli.events = <<"add_repo">>

\* ------------------------------------------------------------------------
\* Two shells that sourced the integration script and share the file system
\* ------------------------------------------------------------------------
\* The place of a handoff file, by the name the shell exported
HandoffPlace(name) == RealPath(PathOf(name).parts)

\* Two shells start with their own $TMPDIR and their own process id
ShellsInit ==
    /\ CacheIdle
    /\ HandoffIdle
    /\ cli = NoCli /\ procs = NoProcs /\ disc = NoDisc /\ fn = NoFn
    /\ \E ps \in SUBSET Pids :
          /\ Cardinality(ps) = 2
          /\ \E tmpdirs \in [ps -> {Unset, EnvSet(PathStr(Path(<<str_lt>>)))}] :
                shells = [p \in ps |->
                            [pc |-> "idle", tool |-> "wt", cwd |-> PathStr(Path(<<str_home>>)),
                             tmpdir |-> tmpdirs[p], env |-> shell_export(tmpdirs[p], p),
                             touched |-> {}, written |-> {}]]

\* The user calls the shell function of a tool in shell p
ShellsBegin(p, tool) ==
    /\ shells[p].pc = "idle"
    /\ LET name == shells[p].env[WrapperVar(tool)].value
       IN  /\ files' = wrapper_begin(files, name)
           /\ shells' = [shells EXCEPT ![p].pc = "child", ![p].tool = tool,
                                       ![p].touched = @ \cup {HandoffPlace(name)}]
    /\ UNCHANGED <<cacheVars, TMPDIR, environ, cd_call, sh_pc, sh_cwd, inv, cli, procs, disc, fn>>

\* The subcommand started from shell p calls output_cd(path)
ShellsOutputCd(p, path) ==
    /\ shells[p].pc = "child"
    /\ LET var == ToolEnvVar(shells[p].tool)
           out == output_cd(path, var, shells[p].env, shells[p].tmpdir, files)
       IN  /\ files' = out.files
           /\ shells' = [shells EXCEPT ![p].written =
                            IF out.wrote
                            THEN @ \cup {HandoffPlace(shells[p].env[var].value)}
                            ELSE @]
    /\ UNCHANGED <<cacheVars, TMPDIR, environ, cd_call, sh_pc, sh_cwd, inv, cli, procs, disc, fn>>

\* The binary started from shell p exits, or is interrupted with the
\* shell function
ShellsExit(p, interrupted) ==
    /\ shells[p].pc = "child"
    /\ shells' = [shells EXCEPT ![p].pc = IF interrupted THEN "idle" ELSE "post",
                                ![p].tool = IF interrupted THEN "wt" ELSE @]
    /\ UNCHANGED <<cacheVars, handoffVars, cli, procs, disc, fn>>

\* The rest of the shell function in shell p
ShellsEnd(p) ==
    /\ shells[p].pc = "post"
    /\ LET name == shells[p].env[WrapperVar(shells[p].tool)].value
           out == wrapper_end(files, shells[p].cwd, name)
       IN  /\ files' = out.files
           /\ shells' = [shells EXCEPT ![p].pc = "idle", ![p].tool = "wt",
                                       ![p].cwd = out.cwd,
                                       ![p].touched = @ \cup {HandoffPlace(name)}]
    /\ UNCHANGED <<cacheVars, TMPDIR, environ, cd_call, sh_pc, sh_cwd, inv, cli, procs, disc, fn>>

NextShells ==
    \E p \in DOMAIN shells :
        \/ \E tool \in Tools \ {"pr"} : ShellsBegin(p, tool)
        \/ ShellsOutputCd(p, Path(<<str_home, str_repo>>))
        \/ \E interrupted \in BOOLEAN : ShellsExit(p, interrupted)
        \/ ShellsEnd(p)

SpecShells == ShellsInit /\ [][NextShells]_vars

\* C13: two shells with different process ids export different handoff
\* paths for a tool, and under every interleaving the wrapper of one shell
\* tests, reads and removes no place a subcommand of the other shell wrote
\* to, so that it changes directory by no file of the other shell.
C13_ShellsDoNotCollide ==
    \A p, q \in DOMAIN shells :
        p # q =>
            /\ \A v \in EnvVars : shells[p].env[v].value # shells[q].env[v].value
            /\ shells[p].touched \cap shells[q].written = {}

\* Two shells with one temp directory: one has changed directory by the
\* file its subcommand wrote while the other, whose subcommand of the same
\* tool has written too, has yet to read its own
C13_Witness ==
    \E p, q \in DOMAIN shells :
        /\ p # q
        /\ shells[p].tmpdir = shells[q].tmpdir
        /\ shells[p].written # {} /\ shells[p].written \subseteq shells[p].touched
        /\ shells[p].pc = "idle" /\ shells[p].cwd # PathStr(Path(<<str_home>>))
        /\ shells[q].pc = "post" /\ shells[q].written # {}
        /\ shells[p].written # shells[q].written

\* ------------------------------------------------------------------------
\* Two invocations that add a repository to one cache file
\* ------------------------------------------------------------------------
\* write() of text at the start of a file that holds old: what lies beyond
\* the end of text stays
Overlay(text, old) == text \o SubSeq(old, Len(text) + 1, Len(old))

\* add_repo after its get_repos returned repos: it returns when a record
\* has the path, and goes on to JSONCache.set with the new list otherwise
AddAfterGet(proc, repos) ==
    IF \E i \in DOMAIN repos : repos[i].path = PathStr(proc.path)
    THEN [proc EXCEPT !.pc = "done"]
    ELSE [proc EXCEPT !.pc = "open", !.after = "done",
                      !.data = AsDicts(SortedByName(
                                   Append(repos, extract_repo_info(proc.path))))]

\* The cache file holds nothing or what an earlier add_repo of a repository
\* outside the scan roots left; each invocation is given another path
RaceInit ==
    /\ now = 0
    /\ disk = FixedRepos \cup ComingRepos
    /\ \E runs \in FindRuns(scan_paths, disk) :
          cache_file \in
            { NoFile,
              add_repo(NoFile, 0, Path(<<str_t, str_b>>), TRUE,
                       discover_repos(scan_paths, runs)).file }
    /\ written = NotWritten
    /\ res = NoRes
    /\ HandoffIdle
    /\ cli = NoCli /\ shells = NoShells /\ disc = NoDisc /\ fn = NoFn
    /\ \E p1, p2 \in Targets :
          /\ p1 # p2
          /\ procs = [i \in 1..2 |->
                        [pc |-> "get", path |-> IF i = 1 THEN p1 ELSE p2,
                         data |-> <<>>, after |-> "done", raised |-> FALSE,
                         wrote |-> FALSE]]

\* add_repo of invocation i calls get_repos: JSONCache.get, and on a miss
\* discover_repos, whose list goes to JSONCache.set
RaceGet(i) ==
    /\ procs[i].pc = "get"
    /\ LET cached == cache_get(cache_file, now)
       IN  IF cached.raised \/ (cached.hit /\ ~FromDictsOk(cached.data))
           THEN procs' = [procs EXCEPT ![i].pc = "done", ![i].raised = TRUE]
           ELSE IF cached.hit
           THEN procs' = [procs EXCEPT ![i] = AddAfterGet(@, FromDicts(cached.data))]
           ELSE \E runs \in FindRuns(scan_paths, disk) :
                    procs' = [procs EXCEPT ![i].pc = "open", ![i].after = "add",
                                  ![i].data = AsDicts(discover_repos(scan_paths, runs))]
    /\ UNCHANGED <<now, cache_file, disk, written, res, handoffVars, cli, shells, disc, fn>>

\* write_text of invocation i opens the file for writing: it is empty now
RaceOpen(i) ==
    /\ procs[i].pc = "open"
    /\ cache_file' = FileOf(<<>>, now)
    /\ procs' = [procs EXCEPT ![i].pc = "write"]
    /\ UNCHANGED <<now, disk, written, res, handoffVars, cli, shells, disc, fn>>

\* write_text of invocation i writes its text and closes the file; after
\* the write of _refresh, add_repo goes on with the list it scanned
RaceWrite(i) ==
    /\ procs[i].pc = "write"
    /\ cache_file' = FileOf(Overlay(json_dumps(procs[i].data), cache_file.text), now)
    /\ written' = [live |-> TRUE, data |-> procs[i].data, at |-> i]
    /\ procs' = [procs EXCEPT ![i] =
                    IF @.after = "add"
                    THEN AddAfterGet([@ EXCEPT !.wrote = TRUE], FromDicts(@.data))
                    ELSE [@ EXCEPT !.pc = "done", !.wrote = TRUE]]
    /\ UNCHANGED <<now, disk, res, handoffVars, cli, shells, disc, fn>>

NextRace ==
    \E i \in DOMAIN procs : RaceGet(i) \/ RaceOpen(i) \/ RaceWrite(i)

SpecRace == RaceInit /\ [][NextRace]_vars

\* C14: when both invocations have returned and one of them wrote, the
\* cache file holds exactly the list the last write was made with, that
\* list has the path of the invocation that wrote it, and neither
\* invocation raised.
C14_LastWriterWins ==
    (\A i \in DOMAIN procs : procs[i].pc = "done") /\ written.live =>
        /\ json_loads(cache_file.text).ok
        /\ Entries(cache_file) = written.data
        /\ \E k \in DOMAIN written.data :
              written.data[k].path = PathStr(procs[written.at].path)
        /\ \A i \in DOMAIN procs : ~procs[i].raised

\* C18: on a fresh cache file whose records carry an unknown field or lack
\* the field remote, get_repos and find_repo do not raise: they return the
\* persisted records from the cache.
C18_ToleratesOtherLayout ==
    (/\ res.op \in {"get_repos", "find_repo"} /\ ~res.force
     /\ res.pre = "fresh"
     /\ \E i \in DOMAIN Entries(cache_file) : DOMAIN Entries(cache_file)[i] # RepoFields)
    => /\ ~res.raised
       /\ res.from_cache
       /\ Len(res.repos) = Len(Entries(cache_file))

\* C19 as stated: invalidate() leaves the cache file absent whether or not
\* it existed before and never raises, and the next
\* get_repos(force_refresh=False) is a miss: it scans and reports
\* from_cache = False.
C19_InvalidateLeavesAbsent ==
    /\ res.op = "invalidate" => ~res.raised /\ ~cache_file.exists
    /\ (res.op = "get_repos" /\ ~res.force /\ res.prev[1] = "invalidate")
          => res.scanned /\ ~res.from_cache

\* C19, amended: invalidate() never raises; it leaves the cache file absent
\* whether or not it existed before unless unlink is refused with OSError,
\* and then the file stays; after an invalidate() that was not refused the
\* next get_repos(force_refresh=False) is a miss.
C19_InvalidateUnlessDenied ==
    /\ res.op = "invalidate" =>
          /\ ~res.raised
          /\ ~res.denied => ~cache_file.exists
          /\ res.denied => (cache_file.exists <=> res.pre # "absent")
    /\ (res.op = "get_repos" /\ ~res.force /\ res.prev[1] = "invalidate" /\ ~res.prev[3])
          => res.scanned /\ ~res.from_cache /\ ~res.raised

\* get_repos right after an invalidate() that removed a fresh cache file
C19_Witness ==
    /\ res.op = "get_repos" /\ ~res.force
    /\ res.prev = <<"invalidate", "fresh", FALSE>>
    /\ res.scanned

\* ------------------------------------------------------------------------
\* discover_repos over lists of scan roots
\* ------------------------------------------------------------------------
\* The most scan roots in a list
MaxRoots == 2

\* The repositories on the disk: /r/b, /r/dist/a below a pruned name,
\* /r/.h/a below a hidden directory, /s/a, and /s/u whose metadata cannot
\* be read
DiscRepos ==
    { Path(<<str_r, str_b>>), Path(<<str_r, <<100, 105, 115, 116>>, str_a>>),
      Path(<<str_r, <<46, 104>>, str_a>>), Path(<<str_s, str_a>>),
      Path(<<str_s, <<117>>>>) }

\* The scan roots: /r, /r/.h and /r/dist inside it, /s, and /nx, which does
\* not exist
DiscRoots ==
    { Path(<<str_r>>), Path(<<str_r, <<46, 104>>>>),
      Path(<<str_r, <<100, 105, 115, 116>>>>), Path(<<str_s>>), Path(<<str_nx>>) }

\* A list of scan roots, and for each root that exists what becomes of its
\* find run: it prints its lines ("ok"), it runs out of time
\* ("TimeoutExpired"), find is not installed ("FileNotFoundError"), or it
\* prints a path whose bytes do not decode ("UnicodeDecodeError")
DiscInit ==
    /\ CacheIdle
    /\ HandoffIdle
    /\ cli = NoCli /\ shells = NoShells /\ procs = NoProcs /\ fn = NoFn
    /\ \E n \in 1..MaxRoots :
       \E bases \in [1..n -> DiscRoots] :
       \E outcomes \in [1..n -> {"ok", "TimeoutExpired", "FileNotFoundError",
                                 "UnicodeDecodeError"}] :
          /\ \A i \in 1..n : bases[i] = Path(<<str_nx>>) => outcomes[i] = "ok"
          /\ disc = [NoDisc EXCEPT !.bases = bases, !.outcomes = outcomes]

\* discover_repos(scan_paths): a find run that raises TimeoutExpired or
\* FileNotFoundError is passed over like a root that does not exist; any
\* other exception of subprocess.run leaves discover_repos
Discover ==
    /\ ~disc.called
    /\ \E printed \in FindRuns(disc.bases, DiscRepos) :
          LET runs == [i \in DOMAIN printed |->
                          IF disc.outcomes[i] = "ok" THEN printed[i] ELSE <<>>]
              raised == \E i \in DOMAIN printed : disc.outcomes[i] = "UnicodeDecodeError"
          IN  disc' = [disc EXCEPT !.called = TRUE, !.runs = runs, !.raised = raised,
                                   !.repos = IF raised THEN <<>>
                                             ELSE discover_repos(disc.bases, runs)]
    /\ UNCHANGED <<cacheVars, handoffVars, cli, shells, procs, fn>>

SpecDiscover == DiscInit /\ [][Discover]_vars

\* The first root of the list whose find run printed the repository
FoundUnder(path_str) ==
    LET line == path_str \o <<Slash>> \o str_dotgit
        at == { i \in DOMAIN disc.runs : \E k \in DOMAIN disc.runs[i] : disc.runs[i][k] = line }
    IN  disc.bases[CHOOSE i \in at : \A j \in at : i <= j]

\* C15: discover_repos returns no two records with the same path, for any
\* list of roots: a root listed twice, a root inside another.
C15_NoDuplicatePaths ==
    \A i, j \in DOMAIN disc.repos :
        disc.repos[i].path = disc.repos[j].path => i = j

\* Two roots whose find runs both printed a repository that is returned
C15_Witness ==
    /\ disc.called /\ Len(disc.runs) = 2
    /\ \E k \in DOMAIN disc.repos :
          \A i \in 1..2 : \E l \in DOMAIN disc.runs[i] :
              disc.runs[i][l] = disc.repos[k].path \o <<Slash>> \o str_dotgit

\* C16: no record's path, relative to the scan root under which it was
\* found, passes through a directory of the deny-set or through a segment
\* that starts with '.'.
C16_NoExcludedSubtree ==
    \A k \in DOMAIN disc.repos :
        LET p == PathOf(disc.repos[k].path)
            rel == RelativeParts(p, FoundUnder(disc.repos[k].path))
        IN  /\ \A i \in DOMAIN rel : rel[i] \notin PruneNames
            /\ ~AnyHidden(rel)

\* A scan of /r alone that returns /r/b, with /r/dist/a and /r/.h/a on the
\* disk below it
C16_Witness ==
    /\ disc.called
    /\ disc.bases = <<Path(<<str_r>>)>>
    /\ { disc.repos[k].path : k \in DOMAIN disc.repos } = { PathStr(Path(<<str_r, str_b>>)) }

\* C25: when every find run succeeds, every readable repository that lies
\* under some root of the list, and whose path relative to that root has no
\* deny-set name and no segment starting with '.', is in the result,
\* whatever the root's own name, the order of the roots, and the other
\* roots that reach the repository.
C25_CompleteUnderExclusions ==
    (disc.called /\ \A i \in DOMAIN disc.bases : disc.outcomes[i] = "ok") =>
        \A i \in DOMAIN disc.bases :
        \A p \in DiscRepos \ Unreadable :
            (/\ IsPrefix(disc.bases[i].parts, p.parts)
             /\ LET rel == RelativeParts(p, disc.bases[i])
                IN  ~AnyHidden(rel) /\ \A m \in DOMAIN rel : rel[m] \notin PruneNames)
            => \E k \in DOMAIN disc.repos : disc.repos[k].path = PathStr(p)

\* C17: a failure confined to one root or to one repository never aborts
\* discover_repos and contributes no record, and the repositories found
\* under the other roots are returned all the same.
C17_FailureIsConfined ==
    disc.called =>
        /\ ~disc.raised
        /\ \A i \in DOMAIN disc.bases :
              disc.outcomes[i] = "ok" =>
                 \A p \in DiscRepos \ Unreadable :
                    (/\ IsPrefix(disc.bases[i].parts, p.parts)
                     /\ \A m \in 1..i - 1 : ~IsPrefix(disc.bases[m].parts, p.parts)
                     /\ LET rel == RelativeParts(p, disc.bases[i])
                        IN  ~AnyHidden(rel) /\ \A m \in DOMAIN rel : rel[m] \notin PruneNames
                     /\ disc.bases[i].parts[Len(disc.bases[i].parts)] \notin PruneNames)
                    => \E k \in DOMAIN disc.repos : disc.repos[k].path = PathStr(p)
        /\ \A k \in DOMAIN disc.repos :
              /\ PathOf(disc.repos[k].path) \notin Unreadable
              /\ \E i \in DOMAIN disc.bases :
                    /\ disc.outcomes[i] = "ok"
                    /\ IsPrefix(disc.bases[i].parts, PathOf(disc.repos[k].path).parts)

\* ------------------------------------------------------------------------
\* common/git.py: run_git
\* ------------------------------------------------------------------------
\* The most characters git prints
MaxOut == 3

\* str.strip(): the text without its leading and trailing white space
\* (space, tab, line feed, carriage return)
RECURSIVE Strip(_)
Strip(text) ==
    IF text = <<>> THEN <<>>
    ELSE IF Head(text) \in {32, 9, 10, 13} THEN Strip(Tail(text))
    ELSE IF text[Len(text)] \in {32, 9, 10, 13} THEN Strip(SubSeq(text, 1, Len(text) - 1))
    ELSE text

\* What run_git returns or raises: none says that the value is None
GitOut(raised, none, text) == [raised |-> raised, none |-> none, text |-> text]

\* run_git(*args, capture, cwd); outcome is what becomes of subprocess.run:
\* git exits with 0, git exits with another status (check=True raises
\* CalledProcessError), or the process cannot be started because git is not
\* on PATH or cwd does not exist (FileNotFoundError)
run_git(outcome, stdout, capture) ==
    IF outcome = "FileNotFoundError" THEN GitOut(TRUE, TRUE, <<>>)
    ELSE IF outcome = "CalledProcessError" THEN GitOut(FALSE, TRUE, <<>>)
    ELSE IF capture THEN GitOut(FALSE, FALSE, Strip(stdout))
    ELSE GitOut(FALSE, TRUE, <<>>)

GitInit ==
    /\ CacheIdle
    /\ HandoffIdle
    /\ cli = NoCli /\ shells = NoShells /\ procs = NoProcs /\ disc = NoDisc
    /\ \E outcome \in {"exit 0", "CalledProcessError", "FileNotFoundError"},
          capture \in BOOLEAN,
          stdout \in UNION { [1..n -> {32, 10, 97}] : n \in 0..MaxOut } :
          fn = [name |-> "run_git", done |-> FALSE, outcome |-> outcome,
                capture |-> capture, stdout |-> stdout,
                out |-> GitOut(FALSE, TRUE, <<>>)]

RunGit ==
    /\ fn.name = "run_git" /\ ~fn.done
    /\ fn' = [fn EXCEPT !.done = TRUE,
                        !.out = run_git(fn.outcome, fn.stdout, fn.capture)]
    /\ UNCHANGED <<cacheVars, handoffVars, cli, shells, procs, disc>>

SpecGit == GitInit /\ [][RunGit]_vars

\* C22: run_git never raises: a nonzero exit status and a process that
\* cannot be started both give None, and on success the captured stdout is
\* returned without its surrounding white space.
C22_RunGitNeverRaises ==
    (fn.name = "run_git" /\ fn.done) =>
        /\ ~fn.out.raised
        /\ fn.outcome # "exit 0" => fn.out.none
        /\ (fn.outcome = "exit 0" /\ fn.capture)
             => /\ ~fn.out.none
                /\ \E i, j \in 0..Len(fn.stdout) :
                      /\ i + j + Len(fn.out.text) = Len(fn.stdout)
                      /\ fn.out.text = SubSeq(fn.stdout, i + 1, i + Len(fn.out.text))
                      /\ \A k \in (1..i) \cup (Len(fn.stdout) - j + 1..Len(fn.stdout)) :
                            fn.stdout[k] # 97
                      /\ fn.out.text # <<>> =>
                            fn.out.text[1] = 97 /\ fn.out.text[Len(fn.out.text)] = 97

\* ------------------------------------------------------------------------
\* rp rename, step by step over the cache, the disk and the handoff
\* ------------------------------------------------------------------------
\* The command line: OLD is a name two records have, a name one record has
\* or a name nobody has; NEW is free or the name of a directory that may
\* exist.  The rp wrapper passes the handoff file /tmp/f.
RenameInit ==
    /\ now = 0
    /\ cache_file = NoFile
    /\ disk \in { FixedRepos \cup c : c \in SUBSET ComingRepos }
    /\ written = NotWritten
    /\ res = NoRes
    /\ TMPDIR = Unset
    /\ environ = [v \in EnvVars |-> IF v = "RP_CD_FILE" THEN EnvSet(PathStr(Path(<<str_tmp, str_f>>))) ELSE Unset]
    /\ files = {}
    /\ cd_call = NoCall
    /\ sh_pc = "idle"
    /\ sh_cwd = PathStr(Path(<<str_home>>))
    /\ inv = NoInv
    /\ cli = NoCli /\ shells = NoShells /\ procs = NoProcs /\ disc = NoDisc
    /\ \E old_name \in {str_b, str_a, <<122>>}, new_name \in {str_d, str_B},
          local_only \in BOOLEAN, github_only \in BOOLEAN :
          fn = [name |-> "rename", pc |-> "idle", old_name |-> old_name,
                new_name |-> new_name, local_only |-> local_only,
                github_only |-> github_only, old_path |-> Path(<<>>),
                new_path |-> Path(<<>>), exit_code |-> 0, raised |-> FALSE,
                reverted |-> FALSE, renamed |-> FALSE]

\* What happens before the command is entered: the cache is filled, a
\* repository cloned elsewhere is added to it, a directory is deleted
BeforeRename ==
    /\ fn.name = "rename" /\ fn.pc = "idle"
    /\ \/ GetRepos(FALSE)
       \/ AddRepo(Path(<<str_t, str_b>>))
       \/ \E p \in ComingRepos : EnvDeleteRepo(p)

\* The command is entered
RenameStart ==
    /\ fn.name = "rename" /\ fn.pc = "idle"
    /\ fn' = [fn EXCEPT !.pc = "start"]
    /\ UNCHANGED <<cacheVars, handoffVars, cli, shells, procs, disc>>

\* rename(old_name, new_name, local_only, github_only): one disjunct for
\* each statement that reads or changes the cache file, the disk, GitHub or
\* the handoff file
rename ==
    /\ fn.name = "rename"
    /\ LET Stop(code, raised) ==
               [fn EXCEPT !.pc = "done", !.exit_code = code, !.raised = raised]
           Cache(op, p, out, sc, next) ==
               /\ cache_file' = out.file
               /\ written' = WrittenAfter(out.file, out.got.scanned \/ out.wrote)
               /\ res' = ResOf(op, PathStr(p), FALSE, out.raised, out.got, sc)
               /\ fn' = IF out.raised THEN Stop(1, TRUE) ELSE next
               /\ UNCHANGED <<now, disk, handoffVars, cli, shells, procs, disc>>
       IN
       \* repo = cache.find_repo(old_name), and the tests before the rename
       \/ /\ fn.pc = "start"
          /\ \E sc \in ScansSeen(FALSE) :
                LET out == find_repo(cache_file, now, fn.old_name, sc.repos)
                    old_path == PathOf(out.found.path)
                    new_path == PathJoin(PathParent(old_path), fn.new_name)
                IN  /\ cache_file' = out.file
                    /\ written' = WrittenAfter(out.file, out.got.scanned)
                    /\ res' = [ResOf("find_repo", fn.old_name, FALSE, out.raised,
                                     out.got, sc) EXCEPT !.found = out.found]
                    /\ fn' = IF out.raised THEN Stop(1, TRUE)
                             ELSE IF fn.github_only THEN [fn EXCEPT !.pc = "gh"]
                             ELSE IF out.found = None THEN Stop(1, FALSE)
                             ELSE IF new_path \in disk THEN Stop(1, FALSE)
                             ELSE [fn EXCEPT !.pc = "found", !.old_path = old_path,
                                             !.new_path = new_path]
          /\ UNCHANGED <<now, disk, handoffVars, cli, shells, procs, disc>>
       \* old_path.rename(new_path)
       \/ /\ fn.pc = "found"
          /\ IF fn.old_path \in disk
             THEN /\ disk' = (disk \ {fn.old_path}) \cup {fn.new_path}
                  /\ fn' = [fn EXCEPT !.pc = "moved", !.renamed = TRUE]
             ELSE /\ disk' = disk
                  /\ fn' = Stop(1, TRUE)
          /\ UNCHANGED <<now, cache_file, written, res, handoffVars,
                         cli, shells, procs, disc>>
       \* cache.remove_repo(old_path)
       \/ /\ fn.pc = "moved"
          /\ \E sc \in ScansSeen(FALSE) :
                Cache("remove_repo", fn.old_path,
                      remove_repo(cache_file, now, fn.old_path, sc.repos), sc,
                      [fn EXCEPT !.pc = "removed"])
       \* cache.add_repo(new_path)
       \/ /\ fn.pc = "removed"
          /\ \E sc \in ScansSeen(FALSE) :
                Cache("add_repo", fn.new_path,
                      add_repo(cache_file, now, fn.new_path, fn.new_path \in disk,
                               sc.repos), sc,
                      [fn EXCEPT !.pc = IF fn.local_only THEN "cd" ELSE "gh"])
       \* result = run_gh("repo", "rename", new_name, "-y")
       \/ /\ fn.pc = "gh"
          /\ \E result_is_none \in BOOLEAN :
                fn' = IF fn.local_only THEN Stop(0, FALSE)
                      ELSE IF result_is_none
                      THEN IF fn.github_only THEN Stop(1, FALSE)
                           ELSE [fn EXCEPT !.pc = "revert"]
                      ELSE IF fn.github_only THEN Stop(0, FALSE)
                           ELSE [fn EXCEPT !.pc = "cd"]
          /\ UNCHANGED <<cacheVars, handoffVars, cli, shells, procs, disc>>
       \* new_path.rename(old_path)
       \/ /\ fn.pc = "revert"
          /\ disk' = (disk \ {fn.new_path}) \cup {fn.old_path}
          /\ fn' = [fn EXCEPT !.pc = "moved back"]
          /\ UNCHANGED <<now, cache_file, written, res, handoffVars,
                         cli, shells, procs, disc>>
       \* cache.remove_repo(new_path)
       \/ /\ fn.pc = "moved back"
          /\ \E sc \in ScansSeen(FALSE) :
                Cache("remove_repo", fn.new_path,
                      remove_repo(cache_file, now, fn.new_path, sc.repos), sc,
                      [fn EXCEPT !.pc = "removed back"])
       \* cache.add_repo(old_path); sys.exit(1)
       \/ /\ fn.pc = "removed back"
          /\ \E sc \in ScansSeen(FALSE) :
                Cache("add_repo", fn.old_path,
                      add_repo(cache_file, now, fn.old_path, fn.old_path \in disk,
                               sc.repos), sc,
                      [Stop(1, FALSE) EXCEPT !.reverted = TRUE])
       \* output_cd(new_path)
       \/ /\ fn.pc = "cd"
          /\ files' = output_cd(fn.new_path, "RP_CD_FILE", environ, TMPDIR, files).files
          /\ fn' = Stop(0, FALSE)
          /\ UNCHANGED <<cacheVars, TMPDIR, environ, cd_call, sh_pc, sh_cwd, inv,
                         cli, shells, procs, disc>>

NextRename ==
    \/ Tick
    \/ BeforeRename
    \/ RenameStart
    \/ rename

SpecRename == RenameInit /\ [][NextRename]_vars

\* The paths of the records the cache file holds
HeldPaths == { Entries(cache_file)[i].path : i \in DOMAIN Entries(cache_file) }

\* C26: when rp rename has renamed the directory and the rename on GitHub
\* then fails, the directory is back at its old path, the cache file holds
\* a record for the old path and none for the new one, no handoff file is
\* written and the exit code is 1.
C26_RenameReverts ==
    (fn.name = "rename" /\ fn.pc = "done" /\ fn.renamed /\ fn.reverted) =>
        /\ fn.old_path \in disk /\ fn.new_path \notin disk
        /\ PathStr(fn.old_path) \in HeldPaths
        /\ PathStr(fn.new_path) \notin HeldPaths
        /\ files = {}
        /\ fn.exit_code = 1 /\ ~fn.raised

\* A reverted rename whose last add_repo found the cache run out and
\* scanned the disk again
C26_Witness ==
    /\ fn.name = "rename" /\ fn.pc = "done" /\ fn.reverted
    /\ now > 0
    /\ PathStr(fn.old_path) \in HeldPaths
    /\ res.scanned

\* ------------------------------------------------------------------------
\* wt create over worktree names: validate_worktree_name (common/validate.py)
\* and the path create_worktree builds (wt/cli.py)
\* ------------------------------------------------------------------------
\* The longest name given or typed
MaxName == 3

\* The characters of a name: a letter, '.', '/', '~' and a line feed
NameChars == {97, 46, 47, 126, Newline}

\* validate_worktree_name(name): TRUE when it returns the name, FALSE when
\* it raises ValidationError.  The '$' of re.match also matches before a
\* line feed that ends the string.
validate_worktree_name(name) ==
    LET alnum(c) == c \in 48..57 \/ c \in 65..90 \/ c \in 97..122
        body == IF name # <<>> /\ name[Len(name)] = Newline
                THEN {name, SubSeq(name, 1, Len(name) - 1)} ELSE {name}
    IN  /\ name # <<>>
        /\ ~\E i \in 1..Len(name) - 1 : name[i] = 46 /\ name[i + 1] = 46
        /\ name[1] # Slash /\ name[1] # 126
        /\ \A i \in DOMAIN name : name[i] # Slash /\ name[i] # 92
        /\ \E m \in body :
              /\ m # <<>> /\ alnum(m[1])
              /\ \A i \in 2..Len(m) : alnum(m[i]) \/ m[i] \in {46, 95, 45}

\* get_worktrees_dir(repo_root): <parent>/<repo name>.worktrees
get_worktrees_dir(repo_root) ==
    PathJoin(PathParent(repo_root),
             PathName(repo_root) \o <<46, 119, 111, 114, 107, 116, 114, 101, 101, 115>>)

\* get_worktree_path(repo_root, name): get_worktrees_dir(repo_root) / name.
\* The join drops the left side when name is absolute, and drops the
\* components '.' of name.
get_worktree_path(repo_root, name) ==
    LET segs == SelectSeq(SplitAcc(name, <<>>, <<>>), LAMBDA c : c # <<46>>)
    IN  IF name # <<>> /\ name[1] = Slash THEN Path(segs)
        ELSE Path(get_worktrees_dir(repo_root).parts \o segs)

\* The repository wt runs in: /home/repo
WtRepoRoot == Path(<<str_home, str_repo>>)

\* The command line of wt create: the name (empty when none is given),
\* whether -b is given, what the user types at the prompt for a name, and
\* whether git worktree add succeeds
WtNameInit ==
    /\ CacheIdle
    /\ HandoffIdle
    /\ cli = NoCli /\ shells = NoShells /\ procs = NoProcs /\ disc = NoDisc
    /\ \E name \in UNION { [1..n -> NameChars] : n \in 0..MaxName },
          typed \in {<<97>>, <<46, 46>>},
          branch \in BOOLEAN, made \in BOOLEAN :
          fn = [name |-> "wt create", done |-> FALSE, arg |-> name, typed |-> typed,
                branch |-> branch, made |-> made, called |-> FALSE,
                call_name |-> <<>>, path |-> Path(<<>>), created |-> FALSE,
                rejected |-> FALSE, exit_code |-> 0]

\* wt create [name] [-b branch], in a repository, the branch chosen: the
\* call of create_worktree it makes
create ==
    /\ fn.name = "wt create" /\ ~fn.done
    /\ LET Call(name) ==
               [fn EXCEPT !.done = TRUE, !.called = TRUE, !.call_name = name,
                          !.path = get_worktree_path(WtRepoRoot, name),
                          !.created = fn.made]
       IN  fn' = IF fn.branch
                 THEN IF fn.arg = <<>>
                      THEN [fn EXCEPT !.done = TRUE, !.exit_code = 1]
                      ELSE Call(fn.arg)
                 ELSE LET name == IF fn.arg = <<>> THEN fn.typed ELSE fn.arg
                      IN  IF validate_worktree_name(name) THEN Call(name)
                          ELSE [fn EXCEPT !.done = TRUE, !.rejected = TRUE]
    /\ UNCHANGED <<cacheVars, handoffVars, cli, shells, procs, disc>>

SpecWtName == WtNameInit /\ [][create]_vars

\* C29: every call of create_worktree is made with a name that passes
\* validate_worktree_name, and every worktree is created as a direct child
\* of the <repo>.worktrees directory, with -b and without.
C29_CreateOnlyValidated ==
    (fn.name = "wt create" /\ fn.called) =>
        /\ validate_worktree_name(fn.call_name)
        /\ fn.created =>
              LET at == RealPath(fn.path.parts)
              IN  /\ Len(at) = Len(get_worktrees_dir(WtRepoRoot).parts) + 1
                  /\ SubSeq(at, 1, Len(at) - 1) = get_worktrees_dir(WtRepoRoot).parts

\* ------------------------------------------------------------------------
\* The standalone wt tool (src/wt/cli.py): its own output_cd
\* ------------------------------------------------------------------------
\* output_cd(path) of wt/cli.py with the environment env and the files fs:
\* Path(cd_file).write_text(str(path)) without any test of the place, and
\* without a handler for the OSError of write_text
wt_output_cd(path, env, fs) ==
    LET cd_file == env["WT_CD_FILE"]
        echo == CD_MARKER \o PathStr(path)
    IN  IF cd_file.set /\ cd_file.value # <<>>
        THEN IF SymlinkLoop(PathOf(cd_file.value).parts, <<>>, {})
             THEN [files |-> fs, wrote |-> FALSE, raised |-> TRUE, echo |-> <<>>]
             ELSE LET w == write_text(fs, PathOf(cd_file.value), PathStr(path))
                  IN  [files |-> w.files, wrote |-> w.ok, raised |-> ~w.ok,
                       echo |-> IF w.ok THEN echo ELSE <<>>]
        ELSE [files |-> fs, wrote |-> FALSE, raised |-> FALSE, echo |-> echo]

\* A subcommand of the standalone tool calls output_cd(path)
WtOutputCd(path) ==
    /\ ~cd_call.called
    /\ \E out \in { wt_output_cd(path, environ, files) } :
        /\ files' = out.files
        /\ cd_call' = [called |-> TRUE, env_var |-> "WT_CD_FILE", path |-> PathStr(path),
                       before |-> files, wrote |-> out.wrote, raised |-> out.raised,
                       echo |-> out.echo]
    /\ UNCHANGED <<cacheVars, extVars, TMPDIR, environ, sh_pc, sh_cwd, inv>>

NextWtCd == \E path \in CdTargets : WtOutputCd(path)

SpecWtCd == CdInit /\ [][NextWtCd]_vars

\* C30: the standalone output_cd writes the file WT_CD_FILE names only when
\* that path leads into the temp directory, and writes nothing when the
\* variable points elsewhere.
C30_StandaloneWritesOnlyInsideTemp ==
    (cd_call.called /\ cd_call.env_var = "WT_CD_FILE") =>
        /\ files # cd_call.before =>
              /\ environ["WT_CD_FILE"].set
              /\ IsPrefix(TempRoot, RealPath(PathOf(environ["WT_CD_FILE"].value).parts))
        /\ \A f \in files \ cd_call.before : IsPrefix(TempRoot, f.path)
        /\ \A f \in cd_call.before : ~IsPrefix(TempRoot, f.path) => f \in files

\* ------------------------------------------------------------------------
\* The age of the records the cache serves
\* ------------------------------------------------------------------------
\* fn.born holds the paths of the file's records that the last scan
\* produced, fn.scan_at the time of that scan
LifeInit ==
    /\ CacheIdle
    /\ HandoffIdle
    /\ cli = NoCli /\ shells = NoShells /\ procs = NoProcs /\ disc = NoDisc
    /\ fn = [name |-> "life", born |-> {}, scan_at |-> 0]

\* A call of RepoCache.get_repos(), add_repo(p) or remove_repo(p)
CacheCall ==
    /\ fn.name = "life"
    /\ \E op \in {"get_repos", "add_repo", "remove_repo"}, p \in Targets :
       \E sc \in ScansSeen(FALSE) :
          LET out == IF op = "add_repo"
                     THEN add_repo(cache_file, now, p, p \in disk, sc.repos)
                     ELSE IF op = "remove_repo"
                     THEN remove_repo(cache_file, now, p, sc.repos)
                     ELSE LET g == get_repos(cache_file, now, FALSE, sc.repos)
                          IN  [file |-> g.file, raised |-> g.raised, got |-> g,
                               wrote |-> FALSE]
              held == { Entries(out.file)[i].path : i \in DOMAIN Entries(out.file) }
          IN  /\ op = "get_repos" => p = Path(<<str_r, str_b>>)
              /\ cache_file' = out.file
              /\ written' = WrittenAfter(out.file, out.got.scanned \/ out.wrote)
              /\ res' = ResOf(op, IF op = "get_repos" THEN <<>> ELSE PathStr(p),
                              FALSE, out.raised, out.got, sc)
              /\ fn' = [fn EXCEPT
                          !.born = held \cap
                                   (IF out.got.scanned
                                    THEN { sc.repos[i].path : i \in DOMAIN sc.repos }
                                    ELSE fn.born),
                          !.scan_at = IF out.got.scanned THEN now ELSE @]
    /\ UNCHANGED <<now, disk, handoffVars, cli, shells, procs, disc>>

NextLife ==
    \/ Tick
    \/ CacheCall

SpecLife == LifeInit /\ [][NextLife]_vars

\* C24: a record that a scan at time T produced is not served from the
\* cache at a time t >= T + ttl_seconds unless a later scan produced it
\* again; add_repo and remove_repo do not extend the life of the other
\* records.
C24_ScannedRecordsExpire ==
    (/\ fn.name = "life" /\ res.op = "get_repos" /\ res.from_cache
     /\ \E i \in DOMAIN res.repos : res.repos[i].path \in fn.born)
    => now < fn.scan_at + ttl_seconds

====
